---------------------------- MODULE Spec2Model ----------------------------
(***************************************************************************)
(* A model of the SWF -> SVG export engine of pyswf (src/swf/export.py,    *)
(* src/swf/font_exporter.py, src/swf/font_storage.py).                     *)
(*                                                                         *)
(* Python's None is modelled by the empty sequence and a present value v   *)
(* by the one-element sequence <<v>>; an id string such as "mask7" is the  *)
(* record or sequence of the numbers it is formatted from.                 *)
(***************************************************************************)
EXTENDS Integers, Sequences, FiniteSets, TLC

VARIABLES
    kind,           \* which exporter class runs: "svg" (SVGExporter) or "frame" (FrameSVGExporter)
    pc,             \* position of the exporter: idle / define / scan / walk / done / aborted
    defs,           \* self.defs: the children of <defs>, in append order
    out,            \* the children of the current output parent (root, or the sprite's <g>)
    parentKind,     \* "root" or "sprite": which parent `out` is
    clip_depth,     \* self.clip_depth
    mask_id,        \* self.mask_id
    num_filters,    \* self._num_filters
    wanted_frame,   \* self.wanted_frame (FrameSVGExporter)
    tags,           \* the record stream of the timeline being composed
    pos,            \* index of the next record of `tags` to scan
    current_frame,  \* get_display_tags: current_frame
    frame_tags,     \* get_display_tags: the depth -> tag dict, in insertion order
    display_tags,   \* the display list handed to export_display_list
    walk,           \* index of the next display list item to export
    sprites,        \* number of sprite timelines exported in this document
    docs,           \* number of export() calls made on this exporter
    num_gradients,  \* SVGShapeExporter.num_gradients
    gradients,      \* the keys of SVGShapeExporter._gradients
    gradient_ids,   \* SVGShapeExporter._gradient_ids, as <<key, id>> pairs
    fills,          \* the url(#gradient<n>) references set on this document's paths
    fonts,          \* SVGExporter.fonts: the document's font tags by characterId
    store,          \* FontStorage: Font._glyph_paths, the glyph files by <<name, code>>
    glyphs,         \* Font._glyphs: the <<name, code>> whose element is loaded
    glyph_exporters,\* FontExporter._glyph_exporters
    next_font_id,   \* FontExporter._next_font_id
    text,           \* the edit text being exported, None outside export_define_edit_text
    calls,          \* the calls made on this document's FontExporter, in order
    path,           \* SVGShapeExporter.path: the attributes of the current path element
    path_data,      \* DefaultSVGShapeExporter.path_data, as a sequence of tokens
    current_draw_command, \* DefaultSVGShapeExporter.current_draw_command
    shape_g,        \* SVGShapeExporter.g: the path elements of the shape's group
    num_patterns,   \* SVGShapeExporter.num_patterns
    text_layout,    \* a TextLayout object: _advances, _min_advance, _max_advance
    laid_out,       \* the last call of TextLayout.layout_text and what it computed
    margin,         \* SVGExporter._margin
    svg,            \* the attributes set on the <svg> element of the document
    disk,           \* the directory of one font of the storage: its files
    handles,        \* the Font object of every process that has opened the font
    path_obj,       \* a Path of swf/svg.py: the d attribute of its element, _commands, _bounds
    path_call       \* the last call made on the Path: its name, argument and return value

tvars == <<kind, pc, defs, out, parentKind, clip_depth, mask_id, num_filters,
           wanted_frame, tags, pos, current_frame, frame_tags, display_tags,
           walk, sprites, docs>>

\* the state of the shape exporter's gradient deduplication
gvars == <<num_gradients, gradients, gradient_ids, fills>>

\* the state of the font exporter and of the font storage
fvars == <<fonts, store, glyphs, glyph_exporters, next_font_id, text, calls>>

\* the state of the shape exporter's path building
svars == <<path, path_data, current_draw_command, shape_g, num_patterns>>

\* the state of a text layout
lvars == <<text_layout, laid_out>>

\* the exporter's margin and the document element
dvars == <<margin, svg>>

\* a font directory and the Font objects of the processes that share it
kvars == <<disk, handles>>

\* a Path object of the SVG cleaner and the last call made on it
pvars == <<path_obj, path_call>>

vars == <<tvars, gvars, fvars, svars, lvars, dvars, kvars, pvars>>

-----------------------------------------------------------------------------
(* Bounds of the model *)

MaxDepth == 2
MaxChar == 2
MaxShapes == 1
MaxRecords == 3
MaxSprites == 1
MaxDocs == 2
MaxFrame == 1
MaxFills == 2
MaxFonts == 1
MaxCode == 2
MaxText == 2
MaxTexts == 2
MaxFilters == 3
MaxPaths == 1
MaxData == 3
MaxPatterns == 1
MaxPlaced == 1

None == <<>>
Some(v) == <<v>>
Val(o) == o[1]

Depths == 0..MaxDepth
CharIds == 1..MaxChar
\* character ids of sprites, distinct from the shape ids (character ids are unique)
SpriteIds == {MaxChar + 1}

RECURSIVE SeqsUpTo(_, _)
SeqsUpTo(S, n) ==
    IF n = 0 THEN {<<>>}
    ELSE LET shorter == SeqsUpTo(S, n - 1)
         IN  shorter \cup {Append(s, x) : s \in {t \in shorter : Len(t) = n - 1}, x \in S}


-----------------------------------------------------------------------------
(* Tags of a timeline's record stream (swf.tag, consumed as parsed objects) *)

NoFilters == <<>>

PlaceObject(d, c, mv, clip) ==
    [type |-> "PlaceObject", depth |-> d,
     hasCharacter |-> c # None, characterId |-> c,
     hasMove |-> mv,
     hasClipDepth |-> clip # None, clipDepth |-> clip,
     hasMatrix |-> FALSE, hasColorTransform |-> FALSE,
     hasFilterList |-> FALSE, filters |-> NoFilters,
     hasName |-> FALSE, instanceName |-> None]

RemoveObject(d) == [type |-> "RemoveObject", depth |-> d]

ShowFrame == [type |-> "ShowFrame"]

\* The records a timeline handed to SVGExporter is drawn from: placements of a
\* defined or undefined character at every depth, with or without a clip
\* depth, and the frame boundary.
WalkTags ==
    {PlaceObject(d, Some(c), FALSE, clip) :
        d \in Depths, c \in CharIds, clip \in {None} \cup {Some(C) : C \in 1..MaxDepth}}
    \cup {ShowFrame}

\* The records a timeline handed to FrameSVGExporter is drawn from: placements
\* with and without the move flag and a character id, removals, frame boundaries.
FrameTags ==
    {PlaceObject(d, c, mv, None) :
        d \in 1..MaxDepth, c \in {None, Some(1)}, mv \in BOOLEAN}
    \cup {RemoveObject(d) : d \in 1..MaxDepth}
    \cup {ShowFrame}

Streams(k) == SeqsUpTo(IF k = "frame" THEN FrameTags ELSE WalkTags, MaxRecords)

\* The filters of a placement's filter list: three of the kinds
\* export_filters knows and one it does not
FilterKinds == {"DropShadow", "Blur", "ColorMatrix", "Unknown"}

\* a placement of character c with a filter list and, if cx, a colour transform
PlaceFiltered(d, c, cx, fs) ==
    [PlaceObject(d, Some(c), FALSE, None) EXCEPT
        !.hasColorTransform = cx, !.hasFilterList = TRUE, !.filters = fs]

\* timelines of placements of shape 1 with filter lists
FilterStreams ==
    SeqsUpTo({PlaceFiltered(d, 1, cx, fs) :
                 d \in 1..MaxDepth, cx \in BOOLEAN,
                 fs \in SeqsUpTo(FilterKinds, MaxFilters)},
             MaxPlaced)

-----------------------------------------------------------------------------
(* BaseExporter.get_display_tags *)

\* the loop of lines 494-498: the placements before the first ShowFrame
RECURSIVE PlacedBeforeShowFrame(_)
PlacedBeforeShowFrame(ts) ==
    IF ts = <<>> THEN <<>>
    ELSE IF Head(ts).type = "ShowFrame" THEN <<>>
    ELSE IF Head(ts).type = "PlaceObject"
         THEN <<Head(ts)>> \o PlacedBeforeShowFrame(Tail(ts))
         ELSE PlacedBeforeShowFrame(Tail(ts))

\* sorted() is stable: an item goes after every item whose key is <= its own
RECURSIVE InsertByDepth(_, _)
InsertByDepth(t, sorted) ==
    IF sorted = <<>> THEN <<t>>
    ELSE IF Head(sorted).depth <= t.depth
         THEN <<Head(sorted)>> \o InsertByDepth(t, Tail(sorted))
         ELSE <<t>> \o sorted

\* a get_display_tags that forgets to sort
Unsorted(ts) == ts

RECURSIVE SortedByDepth(_)
SortedByDepth(ts) ==
    IF ts = <<>> THEN <<>>
    ELSE InsertByDepth(ts[Len(ts)], SortedByDepth(SubSeq(ts, 1, Len(ts) - 1)))

BaseGetDisplayTags(ts) == SortedByDepth(PlacedBeforeShowFrame(ts))

-----------------------------------------------------------------------------
(* SVGExporter.export_display_list_item and its helpers *)

\* "mask%d" % tag.characterId and "#c%s" % tag.characterId are modelled by the
\* character id itself; "filter%d" by the number.

\* the twips of one output pixel (swf.consts)
PIXELS_PER_TWIP == 20

\* a tag's shape_bounds, in twips
Rect(xmin, ymin, xmax, ymax) ==
    [xmin |-> xmin, ymin |-> ymin, xmax |-> xmax, ymax |-> ymax]

\* the bounds of the documents' shapes: a 10x10 pixel square
Square10 == Rect(0, 0, 10 * PIXELS_PER_TWIP, 10 * PIXELS_PER_TWIP)

\* '{}'.format(twips / PIXELS_PER_TWIP): `/` is true division, so the value
\* is a float and its text always has a point and at least one fraction
\* digit ("10.0", "0.25").  The text is modelled by its sign, the number its
\* integer digits spell, the point and the fraction digits.
FloatStr(twips) ==
    LET a == IF twips < 0 THEN 0 - twips ELSE twips
        h == ((a % PIXELS_PER_TWIP) * 100) \div PIXELS_PER_TWIP
    IN [neg |-> twips < 0, int |-> a \div PIXELS_PER_TWIP, point |-> TRUE,
        frac |-> IF h % 10 = 0 THEN <<h \div 10>> ELSE <<h \div 10, h % 10>>]

\* SVGExporter.serialize_bounds: the four texts, joined by spaces
SerializeBounds(bounds) ==
    <<FloatStr(bounds.xmin), FloatStr(bounds.ymin),
      FloatStr(bounds.xmax), FloatStr(bounds.ymax)>>

\* the <g id="c<id>" data-type="shape" data-bounds=...> of a DefineShape tag
\* with bounds `rect` (kept with the fragment as shape_bounds)
DefShape(c, rect) ==
    [type |-> "shape", id |-> c, white |-> FALSE,
     bounds |-> SerializeBounds(rect), shape_bounds |-> rect]
DefSprite(c) == [type |-> "sprite", id |-> c, white |-> FALSE]
DefFilter(n, prims) == [type |-> "filter", id |-> n, prims |-> prims]

\* lines 694-696: the paths of <g id="c<characterId>"> directly under <defs>
\* are filled white
FillWhite(ds, c) ==
    [i \in 1..Len(ds) |->
        IF ds[i].type \in {"shape", "sprite"} /\ ds[i].id = c
        THEN [ds[i] EXCEPT !.white = (ds[i].type = "shape") \/ @]
        ELSE ds[i]]

\* a mask test that leaves out the ceiling itself
MaskAppliesBelow(tag, cd, mid) == tag.depth < cd /\ mid # None

\* line 697: is the item rendered with a mask reference
MaskApplies(tag, cd, mid) == tag.depth <= cd /\ mid # None

\* export_color_transform: the two primitives it appends to the filter
ColorTransformPrims == <<"feColorMatrix:cxform", "feComposite:color-xform">>

KnownFilters == {"DropShadow", "DropShadowKnockout", "Blur", "Glow", "Bevel",
                 "GradientGlow", "Convolution", "ColorMatrix", "GradientBevel"}

\* export_filters: the primitives appended per filter (lines 752-773)
FilterPrims(f) ==
    IF f = "DropShadowKnockout"
    THEN <<"feGaussianBlur", "feComposite:shadowDiff", "feFlood", "feComposite:offsetBlur">>
    ELSE IF f = "DropShadow" THEN <<"feGaussianBlur", "feOffset", "feBlend:offsetBlur">>
    ELSE IF f = "ColorMatrix" THEN <<"feColorMatrix:color-matrix">>
    ELSE <<>>

\* export_filters: the result names collected in `elements`
FilterElements(f) ==
    IF f \in {"DropShadow", "DropShadowKnockout"} THEN <<"offsetBlur">>
    ELSE IF f = "ColorMatrix" THEN <<"color-matrix">>
    ELSE <<>>

RECURSIVE FlatMap(_, _)
FlatMap(Op(_), s) == IF s = <<>> THEN <<>> ELSE Op(Head(s)) \o FlatMap(Op, Tail(s))

\* line 775: an unknown filter raises
FiltersRaise(fs) == \E i \in 1..Len(fs) : fs[i] \notin KnownFilters

\* Does exporting this item raise?  "mask%d" % None is a TypeError (line 690);
\* export_filters raises on an unknown filter (line 775).
ItemRaises(tag) ==
    \/ tag.hasClipDepth /\ tag.characterId = None
    \/ tag.hasFilterList /\ Len(tag.filters) > 0 /\ FiltersRaise(tag.filters)

\* lines 700-716: the filter names collected for the item
ItemFilters(tag) ==
    (IF tag.hasColorTransform THEN <<"color-xform">> ELSE <<>>)
    \o (IF tag.hasFilterList /\ Len(tag.filters) > 0
        THEN FlatMap(FilterElements, tag.filters) ELSE <<>>)

\* an effect graph with the colour transform after the filters
ItemFilterPrimsCxLast(tag) ==
    (IF tag.hasFilterList /\ Len(tag.filters) > 0
     THEN FlatMap(FilterPrims, tag.filters) ELSE <<>>)
    \o (IF tag.hasColorTransform THEN ColorTransformPrims ELSE <<>>)

\* lines 700-716: the primitives appended to the item's <filter>
ItemFilterPrims(tag) ==
    (IF tag.hasColorTransform THEN ColorTransformPrims ELSE <<>>)
    \o (IF tag.hasFilterList /\ Len(tag.filters) > 0
        THEN FlatMap(FilterPrims, tag.filters) ELSE <<>>)

\* line 714
ItemHasFilter(tag) ==
    tag.hasColorTransform \/ (tag.hasFilterList /\ Len(ItemFilters(tag)) > 0)

\* line 685: is_mask is initialised and never assigned again
IsMask(tag) == FALSE

\* the element built for the item: <g> or <mask>, holding one <use>
ItemElement(tag, cd, mid, n) ==
    [tag |-> IF tag.hasClipDepth THEN "mask" ELSE "g",
     id |-> IF tag.hasClipDepth THEN tag.characterId ELSE None,
     mask |-> IF ~tag.hasClipDepth /\ MaskApplies(tag, cd, mid) THEN mid ELSE None,
     href |-> tag.characterId,
     transform |-> tag.hasMatrix,
     filter |-> IF ItemHasFilter(tag) THEN Some(n) ELSE None,
     inst |-> tag]

-----------------------------------------------------------------------------
(* FrameSVGExporter.get_display_tags: the dict frame_tags, kept in insertion  *)
(* order as a sequence of <<depth, tag>> pairs                                *)

HasKey(ft, d) == \E i \in 1..Len(ft) : ft[i][1] = d

Lookup(ft, d) == ft[CHOOSE i \in 1..Len(ft) : ft[i][1] = d][2]

\* frame_tags.pop(d) / del frame_tags[d]
DictRemove(ft, d) == SelectSeq(ft, LAMBDA e : e[1] # d)

\* a store that adds the tag without replacing the one at its depth
DictAdd(ft, d, tag) == Append(ft, <<d, tag>>)

\* frame_tags[d] = tag: an existing key keeps its place, a new key goes last
DictSet(ft, d, tag) ==
    IF HasKey(ft, d)
    THEN [i \in 1..Len(ft) |-> IF ft[i][1] = d THEN <<d, tag>> ELSE ft[i]]
    ELSE Append(ft, <<d, tag>>)

\* frame_tags.values()
DictValues(ft) == [i \in 1..Len(ft) |-> ft[i][2]]

\* a frame test that is off by one
ShowFrameBreaksLate(cf, wf) == cf = wf + 1

\* line 908: does this ShowFrame end the scan
ShowFrameBreaks(cf, wf) == cf = wf

\* lines 912-919: the placement as stored, after a move has inherited from the
\* instance it replaces
Inherit(tag, orig) ==
    [tag EXCEPT
        !.characterId = IF tag.hasCharacter THEN @ ELSE orig.characterId,
        !.instanceName = IF tag.hasName THEN @ ELSE orig.instanceName]

\* lines 913, 922: pop / del of a depth that holds no instance is a KeyError
ScanRaises(ft, tag) ==
    \/ tag.type = "PlaceObject" /\ tag.hasMove /\ ~HasKey(ft, tag.depth)
    \/ tag.type = "RemoveObject" /\ ~HasKey(ft, tag.depth)

\* lines 911-922: frame_tags after a placement or removal record
ScanApply(ft, tag) ==
    IF tag.type = "RemoveObject" THEN DictRemove(ft, tag.depth)
    ELSE IF tag.hasMove
         THEN DictSet(DictRemove(ft, tag.depth), tag.depth,
                      Inherit(tag, Lookup(ft, tag.depth)))
         ELSE DictSet(ft, tag.depth, tag)

-----------------------------------------------------------------------------
(* Fonts, the font storage and the glyph exporters *)

FontIds == 1..MaxFonts
Codes == 1..MaxCode
FontNames == {"A"}

\* FontExporter.__init__, line 18
FirstFallbackFontId == 1000

\* A TagDefineFont2 with one glyph shape per entry of its code table.  A
\* glyph shape is "outline" when its export yields a group with paths and
\* "blank" when it yields a group without children (a glyph without edges).
DefineFont2(c, name, codeTable, glyphShapeTable) ==
    [characterId |-> c, fontName |-> name, codeTable |-> codeTable,
     glyphShapeTable |-> glyphShapeTable]

\* the font tags of a document, by characterId (SVGExporter.export, line 531)
FontDicts ==
    {d \in [FontIds -> {DefineFont2(c, name, t[1], t[2]) :
                           c \in FontIds, name \in FontNames,
                           t \in {<<<<>>, <<>>>>, <<<<1>>, <<"outline">>>>,
                                  <<<<1>>, <<"blank">>>>}}] :
        \A f \in FontIds : d[f].characterId = f}

NoFonts == <<>>
NoExporters == <<>>

\* The glyph files of a font storage: the file <name>/<code>.svg either has
\* a `path` child that Font.get_glyph finds (font_storage.py line 128) or has
\* none, and then get_glyph returns None
NoGlyphFiles == <<>>
Stores ==
    UNION {[D -> {"path", "nopath"}] : D \in SUBSET (FontNames \X Codes)}

\* export_font, line 22: {code: index for index, code in enumerate(codeTable)}
CodeTableOf(codeTable) ==
    [c \in {codeTable[i] : i \in DOMAIN codeTable} |->
        (CHOOSE i \in DOMAIN codeTable :
            /\ codeTable[i] = c
            /\ \A j \in DOMAIN codeTable : codeTable[j] = c => j <= i) - 1]

\* GlyphExporter.__init__; font_elem is the position of the font's group in defs
GlyphExporter(font_id, code_table, font_elem, font) ==
    [font_id |-> font_id, code_table |-> code_table, font_elem |-> font_elem,
     font |-> font, next_glyph_index |-> 0]

\* FontExporter._add_font_element, lines 46-48
DefFont(font_id) == [type |-> "font", id |-> font_id, glyphs |-> <<>>]

\* lxml's append moves an element that already has a parent: the element
\* `src` leaves the font group it is in
DetachGlyph(ds, src) ==
    [k \in DOMAIN ds |->
        IF ds[k].type = "font"
        THEN [ds[k] EXCEPT !.glyphs = SelectSeq(@, LAMBDA e : e.src # src)]
        ELSE ds[k]]

\* GlyphExporter._add_glyph_element, lines 83-86: the path element `src`
\* with path data d gets the id font_<font_id>_<glyph_index> and is appended
\* to the exporter's font group
AddGlyphElement(ds, ge, glyph_index, src, d) ==
    [DetachGlyph(ds, src) EXCEPT ![ge.font_elem].glyphs =
        Append(@, [id |-> <<ge.font_id, glyph_index>>, src |-> src, d |-> d])]

\* GlyphExporter.glyph_to_elem, lines 89-96: the path data of the element
\* made for a glyph shape, "" for the path made at line 95
GlyphToElem(glyph) == IF glyph = "outline" THEN "M p L p" ELSE ""

\* the path data of the path element Font.get_glyph finds in a glyph file
FileGlyphData == "M p L p"

\* GlyphExporter.export_glyph for the glyphs 0..n-1 of glyphShapeTable,
\* export_font lines 31-32
RECURSIVE ExportGlyphs(_, _, _, _)
ExportGlyphs(ds, ge, f, n) ==
    IF n = 0 THEN ds
    ELSE AddGlyphElement(ExportGlyphs(ds, ge, f, n - 1), ge, n - 1,
                         <<"shape", f, n - 1>>,
                         GlyphToElem(fonts[f].glyphShapeTable[n]))

\* Font.get_glyph, lines 120-130: the element of <<name, code>>, if any
GlyphFound(key) ==
    \/ key \in glyphs
    \/ key \in DOMAIN store /\ store[key] = "path"

\* GlyphExporter.export_glyph_by_code, line 78
RecordGlyph(code_table, code, glyph_index) ==
    [c \in DOMAIN code_table \cup {code} |->
        IF c = code THEN glyph_index ELSE code_table[c]]

\* a variant of SkipsChar that skips no character
SkipsNoChar(index) == FALSE

\* export_define_edit_text, lines 633-634
SkipsChar(index) == index = None

\* the codes of the characters TextLayout.layout_text yields for an edit text
Texts == SeqsUpTo(Codes, MaxText)

-----------------------------------------------------------------------------
(* Font (swf/font_storage.py): one font directory shared by processes *)

MaxProcs == 2
MaxStoreCode == 1

Procs == 1..MaxProcs
StoreCodes == 1..MaxStoreCode
StoreAdvances == {10, 20}
StoreElems == {"A", "B"}

\* A Python dict keeps its keys in insertion order: a sequence of
\* <<key, value>> pairs of distinct keys.  The key of a code is the int or,
\* after json, its decimal string.
IntKey(code) == <<"int", code>>
StrKey(code) == <<"str", code>>

DictHas(d, key) == \E i \in 1..Len(d) : d[i][1] = key

\* d.get(key)
DictGet(d, key) ==
    IF DictHas(d, key)
    THEN Some(d[CHOOSE i \in 1..Len(d) : d[i][1] = key][2])
    ELSE None

\* d[key] = value
DictPut(d, key, value) ==
    IF DictHas(d, key)
    THEN [i \in 1..Len(d) |-> IF d[i][1] = key THEN <<key, value>> ELSE d[i]]
    ELSE Append(d, <<key, value>>)

\* json.dumps(d): the members of the object in the order of the dict, every
\* key written as a string
JsonDumps(d) == [i \in 1..Len(d) |-> <<StrKey(d[i][1][2]), d[i][2]>>]

\* json.loads(text): the members are assigned in order, keys are strings
RECURSIVE JsonLoadsInto(_, _)
JsonLoadsInto(d, members) ==
    IF members = <<>> THEN d
    ELSE JsonLoadsInto(DictPut(d, Head(members)[1], Head(members)[2]),
                       Tail(members))

JsonLoads(members) == JsonLoadsInto(<<>>, members)

\* the font directory: whether it exists, its files <code>.svg and the text
\* of advances.json
NoFontDir == [exists |-> FALSE, glyphs |-> <<>>, advances |-> None]

\* Font.__init__, lines 60-64, 77-97
FontOpened ==
    [glyph_paths |-> DOMAIN disk.glyphs,
     glyphs |-> <<>>,
     glyph_advances |-> IF disk.advances = None THEN <<>>
                        ELSE JsonLoads(Val(disk.advances))]

\* a process opens the font: FontStorage.get_or_create_font, Font(font_dir)
OpenFont ==
    /\ \E p \in Procs : handles' = [handles EXCEPT ![p] = Some(FontOpened)]
    /\ UNCHANGED <<tvars, gvars, fvars, svars, lvars, dvars, pvars, disk>>

\* Font.add_glyph, lines 99-113
AddGlyph ==
    /\ \E p \in Procs, code \in StoreCodes, elem \in StoreElems :
          /\ handles[p] # None
          /\ LET h == Val(handles[p])
             IN IF code \in h.glyph_paths
                THEN UNCHANGED <<disk, handles>>
                ELSE /\ disk' = [disk EXCEPT
                                   !.exists = TRUE,
                                   !.glyphs = (code :> elem) @@ disk.glyphs]
                     /\ handles' =
                          [handles EXCEPT ![p] =
                              Some([h EXCEPT
                                      !.glyph_paths = h.glyph_paths \cup {code},
                                      !.glyphs = (code :> elem) @@ h.glyphs])]
    /\ UNCHANGED <<tvars, gvars, fvars, svars, lvars, dvars, pvars>>

\* Font.add_glyph_advance, lines 115-117
AddGlyphAdvance ==
    /\ \E p \in Procs, code \in StoreCodes, advance \in StoreAdvances :
          /\ handles[p] # None
          /\ LET h == Val(handles[p])
             IN handles' =
                  [handles EXCEPT ![p] =
                      Some([h EXCEPT !.glyph_advances =
                              IF ~DictHas(h.glyph_advances, IntKey(code))
                              THEN DictPut(h.glyph_advances, IntKey(code), advance)
                              ELSE h.glyph_advances])]
    /\ UNCHANGED <<tvars, gvars, fvars, svars, lvars, dvars, pvars, disk>>

\* Font.get_glyph_advance, lines 132-133
GetGlyphAdvance(h, code) == DictGet(h.glyph_advances, IntKey(code))

\* Font.save_advances, lines 138-141; open() raises when the directory does
\* not exist and nothing is written
SaveAdvances ==
    /\ \E p \in Procs :
          /\ handles[p] # None
          /\ disk' = IF disk.exists
                     THEN [disk EXCEPT !.advances =
                             Some(JsonDumps(Val(handles[p]).glyph_advances))]
                     ELSE disk
    /\ UNCHANGED <<tvars, gvars, fvars, svars, lvars, dvars, pvars, handles>>

-----------------------------------------------------------------------------
(* The exporter as a state machine *)

\* SVGShapeExporter.__init__, lines 200-203
ShapeExporterInit ==
    /\ num_gradients = 0
    /\ gradients = {}
    /\ gradient_ids = {}
    /\ fills = <<>>
    /\ path = None
    /\ num_patterns = 0
    /\ path_data = <<>>             \* DefaultSVGShapeExporter.__init__
    /\ current_draw_command = ""
    /\ shape_g = <<>>

\* the font storage the exporter is constructed with is one of `stores`;
\* FontExporter.__init__, lines 17-18
FontExporterInit(stores) ==
    /\ store \in stores
    /\ glyphs = {}
    /\ fonts = NoFonts
    /\ glyph_exporters = NoExporters
    /\ next_font_id = FirstFallbackFontId
    /\ text = None
    /\ calls = <<>>

\* BaseExporter.__init__ and SVGExporter.__init__ of exporter class k, with
\* one of `stores` as font storage and one of `margins` as margin
ExporterInitOf(k, stores, margins) ==
    /\ ShapeExporterInit
    /\ FontExporterInit(stores)
    /\ kind = k
    /\ pc = "idle"
    /\ defs = <<>>
    /\ out = <<>>
    /\ parentKind = "root"
    /\ clip_depth = 0            \* BaseExporter.__init__
    /\ mask_id = None            \* BaseExporter.__init__
    /\ num_filters = 0
    /\ wanted_frame = 0
    /\ tags = <<>>
    /\ pos = 1
    /\ current_frame = 0
    /\ frame_tags = <<>>
    /\ display_tags = <<>>
    /\ walk = 1
    /\ sprites = 0
    /\ docs = 0
    /\ text_layout = None
    /\ laid_out = None
    /\ margin \in margins
    /\ svg = None
    /\ disk = NoFontDir
    /\ handles = [p \in Procs |-> None]
    /\ path_obj = None
    /\ path_call = None

\* an exporter with the default margin (line 510)
ExporterInitWith(k, stores) == ExporterInitOf(k, stores, {0})

\* an exporter over an empty font storage
ExporterInit(k) == ExporterInitWith(k, {NoGlyphFiles})

\* SVGExporter.export, lines 522-531 (and FrameSVGExporter.export, line 899):
\* a new document, whose font tags are one of `fontDicts`; the exporter may
\* have exported, or failed to export, others
ExportOf(fontDicts) ==
    /\ pc \in {"idle", "done", "aborted"}
    /\ docs < MaxDocs
    /\ docs' = docs + 1
    /\ \E k \in 0..MaxFrame :
          wanted_frame' = IF kind = "frame" THEN k ELSE 0
    /\ defs' = <<>>
    /\ out' = <<>>
    /\ parentKind' = "root"
    /\ num_filters' = 0
    /\ sprites' = 0
    /\ pc' = "define"
    /\ fills' = <<>>
    /\ UNCHANGED <<kind, clip_depth, mask_id, tags, pos, current_frame,
                   frame_tags, display_tags, walk>>
    /\ UNCHANGED <<num_gradients, gradients, gradient_ids>>
    /\ fonts' \in fontDicts
    /\ glyph_exporters' = NoExporters
    /\ next_font_id' = FirstFallbackFontId
    /\ text' = None
    /\ calls' = <<>>
    /\ UNCHANGED <<store, glyphs>>
    /\ svg' = None
    /\ UNCHANGED <<svars, lvars, margin, kvars, pvars>>

\* a document without fonts
Export == ExportOf({NoFonts})

DefinedIds == {defs[i].id : i \in {j \in 1..Len(defs) : defs[j].type \in {"shape", "sprite"}}}

\* SVGExporter.export_define_shape: the shape's <g id="c<id>"> joins <defs>.
\* The document defines the shapes 1..n, n <= MaxShapes, ahead of its sprites.
ExportDefineShape ==
    /\ pc = "define"
    /\ sprites = 0
    /\ Len(defs) < MaxShapes
    /\ defs' = Append(defs, DefShape(Len(defs) + 1, Square10))
    /\ UNCHANGED <<kind, pc, out, parentKind, clip_depth, mask_id, num_filters,
                   wanted_frame, tags, pos, current_frame, frame_tags,
                   display_tags, walk, sprites, docs>>
    /\ UNCHANGED <<gvars, fvars>>
    /\ UNCHANGED <<svars, lvars, dvars, kvars, pvars>>

\* export_display_list(get_display_tags(tags)) is called with `cd` the value
\* of self.clip_depth at the call.  BaseExporter.get_display_tags changes no
\* state of the exporter, so SVGExporter goes on to line 482 at once;
\* FrameSVGExporter.get_display_tags is entered and its locals are
\* initialised (lines 904-905).
EnterTimeline(stream, cd) ==
    /\ tags' = stream
    /\ pos' = 1
    /\ current_frame' = 0
    /\ frame_tags' = <<>>
    /\ walk' = 1
    /\ IF kind = "svg"
       THEN /\ display_tags' = BaseGetDisplayTags(stream)
            /\ clip_depth' = 0
            /\ pc' = "walk"
       ELSE /\ display_tags' = <<>>
            /\ clip_depth' = cd
            /\ pc' = "scan"

\* SVGExporter.export_define_sprite up to the call of get_display_tags
ExportDefineSprite ==
    /\ pc = "define"
    /\ sprites < MaxSprites
    /\ \E c \in SpriteIds, stream \in Streams(kind) :
          /\ defs' = Append(defs, DefSprite(c))
          /\ EnterTimeline(stream, 0)
    /\ out' = <<>>
    /\ parentKind' = "sprite"
    /\ sprites' = sprites + 1
    /\ UNCHANGED <<kind, mask_id, num_filters, wanted_frame, docs>>
    /\ UNCHANGED <<gvars, fvars>>
    /\ UNCHANGED <<svars, lvars, dvars, kvars, pvars>>

\* BaseExporter.export, line 404: the top-level timeline, one of `streams`
ExportRootOf(streams) ==
    /\ pc = "define"
    /\ \E stream \in streams : EnterTimeline(stream, clip_depth)
    /\ out' = <<>>
    /\ parentKind' = "root"
    /\ UNCHANGED <<kind, defs, mask_id, num_filters, wanted_frame,
                   sprites, docs>>
    /\ UNCHANGED <<gvars, fvars>>
    /\ UNCHANGED <<svars, lvars, dvars, kvars, pvars>>

ExportRoot == ExportRootOf(Streams(kind))

\* the top-level timeline of a document that places nothing
ExportEmptyRoot == ExportRootOf({<<>>})

\* export_display_list, line 482, once get_display_tags has returned `dl`
EnterDisplayList(dl) ==
    /\ display_tags' = dl
    /\ clip_depth' = 0
    /\ walk' = 1
    /\ pc' = "walk"

\* the locals of get_display_tags and export_display_list go when the calls
\* return or an exception unwinds them
DropLocals ==
    /\ tags' = <<>>
    /\ pos' = 1
    /\ current_frame' = 0
    /\ frame_tags' = <<>>
    /\ display_tags' = <<>>
    /\ walk' = 1

\* FrameSVGExporter.get_display_tags: one record of the loop of lines 906-922
FrameScanRecord ==
    /\ pc = "scan"
    /\ kind = "frame"
    /\ pos <= Len(tags)
    /\ LET tag == tags[pos] IN
         /\ ~(tag.type = "ShowFrame" /\ ShowFrameBreaks(current_frame, wanted_frame))
         /\ IF tag.type = "ShowFrame"
            THEN /\ current_frame' = current_frame + 1
                 /\ pos' = pos + 1
                 /\ UNCHANGED <<frame_tags, pc, tags, display_tags, walk>>
            ELSE IF ScanRaises(frame_tags, tag)
            THEN \* KeyError: export() raises
                 /\ pc' = "aborted"
                 /\ DropLocals
            ELSE /\ frame_tags' = ScanApply(frame_tags, tag)
                 /\ pos' = pos + 1
                 /\ UNCHANGED <<current_frame, pc, tags, display_tags, walk>>
    /\ UNCHANGED <<kind, defs, out, parentKind, clip_depth, mask_id,
                   num_filters, wanted_frame, sprites, docs>>
    /\ UNCHANGED <<gvars, fvars>>
    /\ UNCHANGED <<svars, lvars, dvars, kvars, pvars>>

\* FrameSVGExporter.get_display_tags: the loop ends (line 909, or the stream is
\* exhausted), line 924 sorts the values, and export_display_list begins
FrameScanEnd ==
    /\ pc = "scan"
    /\ kind = "frame"
    /\ \/ pos > Len(tags)
       \/ /\ pos <= Len(tags)
          /\ tags[pos].type = "ShowFrame"
          /\ ShowFrameBreaks(current_frame, wanted_frame)
    /\ EnterDisplayList(BaseGetDisplayTags(DictValues(frame_tags)))
    /\ UNCHANGED <<kind, defs, out, parentKind, mask_id, num_filters,
                   wanted_frame, tags, pos, current_frame, frame_tags,
                   sprites, docs>>
    /\ UNCHANGED <<gvars, fvars>>
    /\ UNCHANGED <<svars, lvars, dvars, kvars, pvars>>

\* SVGExporter.export_display_list_item for the next item of the list
ExportDisplayListItem ==
    /\ pc = "walk"
    /\ walk <= Len(display_tags)
    /\ LET tag == display_tags[walk]
           cd == IF tag.hasClipDepth THEN Val(tag.clipDepth) ELSE clip_depth
           mid == IF tag.hasClipDepth THEN tag.characterId ELSE mask_id
           n == num_filters + 1
           d1 == IF tag.hasClipDepth /\ tag.characterId # None
                 THEN FillWhite(defs, Val(tag.characterId)) ELSE defs
           d2 == IF ItemHasFilter(tag)
                 THEN Append(d1, DefFilter(n, ItemFilterPrims(tag))) ELSE d1
           g == ItemElement(tag, clip_depth, mask_id, n)
       IN
         IF tag.hasClipDepth /\ tag.characterId = None
         THEN \* line 690 raises before anything is assigned
              /\ pc' = "aborted"
              /\ DropLocals
              /\ UNCHANGED <<defs, out, clip_depth, mask_id, num_filters>>
         ELSE IF ItemRaises(tag)
         THEN \* line 711 raises: what lines 690-707 did stays done
              /\ pc' = "aborted"
              /\ DropLocals
              /\ clip_depth' = cd
              /\ mask_id' = mid
              /\ num_filters' = n
              /\ defs' = d1
              /\ out' = out
         ELSE /\ clip_depth' = cd
              /\ mask_id' = mid
              /\ num_filters' = n
              /\ IF IsMask(tag)
                 THEN defs' = Append(d2, g) /\ out' = out
                 ELSE defs' = d2 /\ out' = Append(out, g)
              /\ walk' = walk + 1
              /\ pc' = pc
              /\ UNCHANGED <<tags, pos, current_frame, frame_tags, display_tags>>
    /\ UNCHANGED <<kind, parentKind, wanted_frame, sprites, docs>>
    /\ UNCHANGED <<gvars, fvars>>
    /\ UNCHANGED <<svars, lvars, dvars, kvars, pvars>>

\* round(twips / PIXELS_PER_TWIP): to the nearest integer, a half to the even
\* one
RoundPixels(twips) ==
    LET q == twips \div PIXELS_PER_TWIP
        r == twips % PIXELS_PER_TWIP
    IN IF 2 * r < PIXELS_PER_TWIP THEN q
       ELSE IF 2 * r > PIXELS_PER_TWIP THEN q + 1
       ELSE IF q % 2 = 0 THEN q ELSE q + 1

\* lines 538-546: "%dpx" % round(frame_width), as the number of pixels
FrameWidth(frame_size) == RoundPixels(frame_size.xmax - frame_size.xmin)
FrameHeight(frame_size) == RoundPixels(frame_size.ymax - frame_size.ymin)

\* lines 549-550: vb = [xmin, ymin, xmax, ymax], joined by spaces
ViewBox(frame_size) == SerializeBounds(frame_size)

\* the frame sizes of the documents of a margin run
FrameSizes ==
    {Square10,
     Rect(0, 0, 10 * PIXELS_PER_TWIP + 10, 11 * PIXELS_PER_TWIP + 10),
     Rect(0 - PIXELS_PER_TWIP, 0, 5 * PIXELS_PER_TWIP, 3 * PIXELS_PER_TWIP)}

\* export_display_list returns and the locals of the calls are gone: a
\* sprite's walk goes back to export_define_shapes with the sprite's group
\* complete; the root's walk ends BaseExporter.export, and SVGExporter.export
\* goes on (lines 536-553) with the header's frame_size, one of `frame_sizes`:
\* it sets width and height and, with a margin, reads self.bounds, an
\* attribute that no class of the exporter assigns (AttributeError, line 548)
EndDisplayListOf(frame_sizes) ==
    /\ pc = "walk"
    /\ walk > Len(display_tags)
    /\ IF parentKind = "sprite"
       THEN /\ pc' = "define"
            /\ out' = <<>>
            /\ svg' = svg
       ELSE /\ out' = out
            /\ \E frame_size \in frame_sizes :
                  svg' = Some([frame_size |-> frame_size,
                               width |-> FrameWidth(frame_size),
                               height |-> FrameHeight(frame_size),
                               viewBox |-> IF margin > 0 THEN None
                                           ELSE Some(ViewBox(frame_size))])
            /\ pc' = IF margin > 0 THEN "aborted" ELSE "done"
    /\ DropLocals
    /\ UNCHANGED <<kind, defs, parentKind, clip_depth, mask_id,
                   num_filters, wanted_frame, sprites, docs>>
    /\ UNCHANGED <<gvars, fvars>>
    /\ UNCHANGED <<svars, lvars, margin, kvars, pvars>>

\* documents whose frame is the 10x10 pixel square
EndDisplayList == EndDisplayListOf({Square10})

-----------------------------------------------------------------------------
(* SVGShapeExporter.export_gradient and the gradient fills of a shape *)

\* ColorUtils.to_rgb_string: "#rrggbb" of the colour's red, green and blue
\* bytes, written here as the 24-bit number the string spells
ToRgbString(color) == color % 16777216

\* A gradient as begin_gradient_fill and line_gradient_style receive it; an
\* alpha is in hundredths (100 is 1.0), a ratio in 0..255
Gradient(type, colors, focal) ==
    [type |-> type, colors |-> colors, alphas |-> <<100, 100>>,
     ratios |-> <<0, 255>>, matrix |-> None, spreadMethod |-> "pad",
     interpolationMethod |-> "rgb", focalPointRatio |-> focal]

Gradients ==
    {Gradient(type, colors, focal) :
        type \in {"linear", "radial"},
        colors \in {<<0, 2>>, <<1, 2>>},
        focal \in {0, 1}}

\* lines 239-276: the element built for a gradient before it is given an id.
\* x1/x2 and r/cx/cy are fixed by the tag name; fx is 819.2 * focalPointRatio
\* and the offset ratio / 255.0, kept as the numbers they are formatted from.
GradientElement(g) ==
    [tag |-> IF g.type = "linear" THEN "linearGradient" ELSE "radialGradient",
     fx |-> IF g.type # "linear" /\ g.focalPointRatio # 0
            THEN Some(g.focalPointRatio) ELSE None,
     spreadMethod |-> IF g.spreadMethod \in {"pad", "reflect", "repeat"}
                      THEN Some(g.spreadMethod) ELSE None,
     colorInterpolation |-> IF g.interpolationMethod = "linear_rgb"
                            THEN Some("linearRGB") ELSE None,
     gradientTransform |-> g.matrix,
     stops |-> [i \in 1..Len(g.colors) |->
                   [offset |-> g.ratios[i],
                    stopColor |-> IF g.colors[i] # 0
                                  THEN Some(ToRgbString(g.colors[i])) ELSE None,
                    stopOpacity |-> IF g.alphas[i] # 100
                                    THEN Some(g.alphas[i]) ELSE None]]]

\* line 279: key = etree.tostring(gradient), the serialised element
GradientKey(g) == GradientElement(g)

\* the gradient element as it joins <defs>, line 285-286
DefGradient(n, g) == [type |-> "gradient", id |-> n, elem |-> GradientElement(g)]

\* self._gradient_ids[key]
GradientIdOf(key) == (CHOOSE p \in gradient_ids : p[1] = key)[2]

\* export_gradient (lines 237-288) for gradient gr, called by
\* begin_gradient_fill (line 229) or line_gradient_style (line 350), which
\* set the attribute attr (fill or stroke) of the current path to
\* url(#gradient<id>)
ExportGradientCall(gr, attr) ==
    LET n == num_gradients + 1
        key == GradientKey(gr)
        hit == key \in gradients
        gradient_id == IF hit THEN GradientIdOf(key) ELSE n
    IN  /\ num_gradients' = n
        /\ gradients' = gradients \cup {key}
        /\ gradient_ids' = IF hit THEN gradient_ids
                           ELSE gradient_ids \cup {<<key, n>>}
        /\ defs' = IF hit THEN defs ELSE Append(defs, DefGradient(n, gr))
        /\ fills' = Append(fills, [attr |-> attr, ref |-> gradient_id,
                                  gradient |-> gr])

\* a gradient fill or stroke of a shape being defined
ExportGradient ==
    /\ pc = "define"
    /\ Len(fills) < MaxFills
    /\ \E gr \in Gradients, attr \in {"fill", "stroke"} :
          ExportGradientCall(gr, attr)
    /\ UNCHANGED <<kind, pc, out, parentKind, clip_depth, mask_id, num_filters,
                   wanted_frame, tags, pos, current_frame, frame_tags,
                   display_tags, walk, sprites, docs>>
    /\ UNCHANGED <<fvars, svars, lvars, dvars, kvars, pvars>>

-----------------------------------------------------------------------------
(* SVGShapeExporter: the paths of a shape *)

\* MINIMUM_STROKE_WIDTH (line 35), in tenths: 0.5
MinimumStrokeWidth == 5

\* the thickness 1 that stands in for NaN (line 329), in tenths
DefaultThickness == 10

\* thicknesses handed to the line-style operations, in tenths; None is NaN
Thicknesses == {None} \cup {Some(t) : t \in {0, 2, 5, 20}}

\* alphas, in hundredths
Alphas == {50, 100}

\* the character id of the document's bitmap
ImageIds == {MaxChar + 2}

\* SVGExporter.export's force_stroke (line 516), left at its default
ForceStroke == FALSE

\* self._e.path(), line 387: a path element without attributes; `thickness`
\* remembers the argument of the line-style operation that styled it
NewPath ==
    [fill |-> None, fillOpacity |-> None, stroke |-> None,
     strokeWidth |-> None, strokeOpacity |-> None, linejoin |-> None,
     linecap |-> None, d |-> None, thickness |-> None]

\* a variant of ClampThickness that does not clamp
UnclampedThickness(t) == t

\* lines 330, 356, 373
ClampThickness(t) == IF t < MinimumStrokeWidth THEN MinimumStrokeWidth ELSE t

\* lines 329-330: the stroke width for the thickness argument th
StrokeWidth(th) ==
    ClampThickness(IF th = None THEN DefaultThickness ELSE Val(th))

\* str.rstrip of path_data (line 384): the last token loses its trailing blank
Rstrip(data) ==
    IF data # <<>> /\ data[Len(data)] = "p "
    THEN [data EXCEPT ![Len(data)] = "p"] ELSE data

\* SVGShapeExporter.finalize_path, lines 383-386: the group after it
FinalizedGroup ==
    IF path # None /\ Len(path_data) > 0
    THEN Append(shape_g, [Val(path) EXCEPT !.d = Some(Rstrip(path_data))])
    ELSE shape_g

\* finalize_path (lines 382-388, 193-195) followed by self.path.set(...) calls
\* that make the new path `p`
FinalizePathThen(p) ==
    /\ shape_g' = FinalizedGroup
    /\ path' = Some(p)
    /\ path_data' = <<>>
    /\ current_draw_command' = ""

\* there is room for the path being drawn
RoomToDraw(n) == Len(shape_g) < MaxPaths /\ Len(path_data) + n <= MaxData

ShapeDefs == {k \in 1..Len(defs) : defs[k].type = "shape"}

ShapeUnchanged ==
    UNCHANGED <<kind, out, parentKind, clip_depth, mask_id, num_filters,
                wanted_frame, tags, pos, current_frame, frame_tags,
                display_tags, walk, sprites, docs, lvars, dvars, kvars, pvars>>

\* SVGExporter.export_image, lines 815-828: the bitmap's <image> joins <defs>
ExportDefineBits ==
    /\ pc = "define"
    /\ \E c \in ImageIds :
          /\ \A k \in 1..Len(defs) : ~(defs[k].type = "image" /\ defs[k].id = c)
          /\ defs' = Append(defs, [type |-> "image", id |-> c])
    /\ ShapeUnchanged
    /\ UNCHANGED <<pc, gvars, fvars, svars>>

\* SVGExporter.export_define_shape, lines 674-675, up to begin_shape (line 209)
BeginShape ==
    /\ pc = "define"
    /\ Cardinality(ShapeDefs) < MaxShapes
    /\ shape_g' = <<>>
    /\ pc' = "shape"
    /\ ShapeUnchanged
    /\ UNCHANGED <<defs, gvars, fvars, path, path_data, current_draw_command,
                   num_patterns>>

\* DefaultSVGShapeExporter.move_to, lines 133-137
MoveTo ==
    /\ pc = "shape"
    /\ RoomToDraw(2)
    /\ current_draw_command' = ""
    /\ path_data' = path_data \o <<"M", "p ">>
    /\ ShapeUnchanged
    /\ UNCHANGED <<pc, defs, gvars, fvars, path, shape_g, num_patterns>>

\* line_to (lines 139-145) with command "L" and one coordinate pair, curve_to
\* (lines 147-155) with command "Q" and two
DrawTo(command, pairs) ==
    /\ pc = "shape"
    /\ RoomToDraw(Len(pairs) + 1)
    /\ current_draw_command' = command
    /\ path_data' = path_data
                    \o (IF current_draw_command # command
                        THEN <<command>> ELSE <<>>)
                    \o pairs
    /\ ShapeUnchanged
    /\ UNCHANGED <<pc, defs, gvars, fvars, path, shape_g, num_patterns>>

LineTo == DrawTo("L", <<"p ">>)

CurveTo == DrawTo("Q", <<"p ", "p ">>)

\* SVGShapeExporter.begin_fill, lines 211-220
BeginFill ==
    /\ pc = "shape"
    /\ \E color \in {0}, alpha \in Alphas :
          FinalizePathThen(
             [NewPath EXCEPT
                !.fill = <<"rgb", ToRgbString(color)>>,
                !.fillOpacity = IF alpha < 100 THEN Some(alpha) ELSE None,
                !.stroke = IF alpha < 100 THEN None
                           ELSE IF ForceStroke
                           THEN <<"rgb", ToRgbString(color)>>
                           ELSE <<"none">>,
                !.strokeWidth = IF alpha >= 100 /\ ForceStroke
                                THEN Some(DefaultThickness) ELSE None])
    /\ ShapeUnchanged
    /\ UNCHANGED <<pc, defs, gvars, fvars, num_patterns>>

\* SVGShapeExporter.line_style, lines 326-333
LineStyle ==
    /\ pc = "shape"
    /\ \E th \in Thicknesses, color \in {0}, alpha \in {100} :
          FinalizePathThen(
             [NewPath EXCEPT
                !.fill = <<"none">>,
                !.stroke = <<"rgb", ToRgbString(color)>>,
                !.strokeWidth = Some(StrokeWidth(th)),
                !.strokeOpacity = IF alpha < 100 THEN Some(alpha) ELSE None,
                !.thickness = Some(th)])
    /\ ShapeUnchanged
    /\ UNCHANGED <<pc, defs, gvars, fvars, num_patterns>>

\* SVGShapeExporter.begin_gradient_fill, lines 227-230
BeginGradientFill ==
    /\ pc = "shape"
    /\ Len(fills) < MaxFills
    /\ \E gr \in {Gradient("linear", <<0, 2>>, 0)} :
          /\ ExportGradientCall(gr, "fill")
          /\ FinalizePathThen(
                [NewPath EXCEPT
                   !.stroke = <<"none">>,
                   !.fill = <<"url", "gradient",
                              fills'[Len(fills')].ref>>])
    /\ ShapeUnchanged
    /\ UNCHANGED <<pc, fvars, num_patterns>>

\* SVGShapeExporter.line_gradient_style, lines 349-357
LineGradientStyle ==
    /\ pc = "shape"
    /\ Len(fills) < MaxFills
    /\ \E th \in Thicknesses, gr \in {Gradient("linear", <<0, 2>>, 0)},
          joints \in {0}, startCaps \in {0} :
          /\ ExportGradientCall(gr, "stroke")
          /\ FinalizePathThen(
                [NewPath EXCEPT
                   !.fill = <<"none">>,
                   !.linejoin = Some(joints),
                   !.linecap = Some(startCaps),
                   !.stroke = <<"url", "gradient",
                                fills'[Len(fills')].ref>>,
                   !.strokeWidth = Some(StrokeWidth(th)),
                   !.thickness = Some(th)])
    /\ ShapeUnchanged
    /\ UNCHANGED <<pc, fvars, num_patterns>>

\* is there an <image id="c<bitmap_id>"> directly under <defs>, lines 293-294
HasImage(bitmap_id) ==
    \E k \in 1..Len(defs) : defs[k].type = "image" /\ defs[k].id = bitmap_id

\* finalize_path and export_pattern (lines 291-312) for a bitmap that is
\* there, then the path `p` whose paint is the pattern; for a bitmap that is
\* not there export_pattern raises at line 295
PatternStyle(bitmap_id, p) ==
    /\ num_patterns' = num_patterns + 1
    /\ IF HasImage(bitmap_id)
       THEN /\ defs' = Append(defs, [type |-> "pattern",
                                     id |-> num_patterns + 1,
                                     href |-> bitmap_id])
            /\ FinalizePathThen(p)
            /\ pc' = pc
       ELSE /\ defs' = defs
            /\ FinalizePathThen(NewPath)
            /\ pc' = "aborted"

\* SVGShapeExporter.begin_bitmap_fill, lines 315-318
BeginBitmapFill ==
    /\ pc = "shape"
    /\ num_patterns < MaxPatterns
    /\ \E bitmap_id \in ImageIds :
          PatternStyle(bitmap_id,
             [NewPath EXCEPT
                !.stroke = <<"none">>,
                !.fill = <<"url", "pat", num_patterns + 1>>])
    /\ ShapeUnchanged
    /\ UNCHANGED <<gvars, fvars>>

\* SVGShapeExporter.line_bitmap_style, lines 366-374
LineBitmapStyle ==
    /\ pc = "shape"
    /\ num_patterns < MaxPatterns
    /\ \E th \in Thicknesses, bitmap_id \in ImageIds,
          joints \in {0}, startCaps \in {0} :
          PatternStyle(bitmap_id,
             [NewPath EXCEPT
                !.fill = <<"none">>,
                !.stroke = <<"url", "pat", num_patterns + 1>>,
                !.linejoin = Some(joints),
                !.linecap = Some(startCaps),
                !.strokeWidth = Some(StrokeWidth(th)),
                !.thickness = Some(th)])
    /\ ShapeUnchanged
    /\ UNCHANGED <<gvars, fvars>>

\* end_fills (lines 378-380) and end_lines (lines 187-188)
EndFills ==
    /\ pc = "shape"
    /\ FinalizePathThen(NewPath)
    /\ ShapeUnchanged
    /\ UNCHANGED <<pc, defs, gvars, fvars, num_patterns>>

\* end_shape (lines 190-191), then export_define_shape lines 676-680: the
\* shape's group joins <defs>
EndShape ==
    /\ pc = "shape"
    /\ FinalizePathThen(NewPath)
    /\ defs' = Append(defs, DefShape(Cardinality(ShapeDefs) + 1, Square10)
                             @@ [paths |-> FinalizedGroup])
    /\ pc' = "define"
    /\ ShapeUnchanged
    /\ UNCHANGED <<gvars, fvars, num_patterns>>

-----------------------------------------------------------------------------
(* Fonts and edit texts *)

ExportedFonts == {calls[i].font : i \in {j \in 1..Len(calls) : calls[j].op = "export_font"}}

EditTexts == {k \in 1..Len(defs) : defs[k].type = "edit_text"}

\* SVGExporter.export_define_font and FontExporter.export_font, lines 20-32
ExportDefineFont ==
    /\ pc = "define"
    /\ \E f \in DOMAIN fonts \ ExportedFonts :
          LET tag == fonts[f]
              ge == GlyphExporter(f, CodeTableOf(tag.codeTable),
                                  Len(defs) + 1, tag.fontName)
              n == Len(tag.glyphShapeTable)
          IN  /\ defs' = ExportGlyphs(Append(defs, DefFont(f)), ge, f, n)
              /\ glyph_exporters' =
                    [g \in DOMAIN glyph_exporters \cup {f} |->
                        IF g = f THEN [ge EXCEPT !.next_glyph_index = n]
                        ELSE glyph_exporters[g]]
              /\ calls' = Append(calls, [op |-> "export_font", font |-> f])
    /\ UNCHANGED <<fonts, store, glyphs, next_font_id, text>>
    /\ UNCHANGED <<kind, pc, out, parentKind, clip_depth, mask_id, num_filters,
                   wanted_frame, tags, pos, current_frame, frame_tags,
                   display_tags, walk, sprites, docs>>
    /\ UNCHANGED gvars
    /\ UNCHANGED <<svars, lvars, dvars, kvars, pvars>>

\* SVGExporter.export_define_edit_text, lines 612-631: up to the loop over
\* the characters of the layout
ExportDefineEditText ==
    /\ pc = "define"
    /\ Cardinality(EditTexts) < MaxTexts
    /\ \E f \in DOMAIN fonts, chars \in Texts :
          text' = Some([characterId |-> Cardinality(EditTexts) + 1,
                        fontId |-> f, chars |-> chars, i |-> 1, uses |-> <<>>])
    /\ pc' = "edit_text"
    /\ UNCHANGED <<fonts, store, glyphs, glyph_exporters, next_font_id, calls>>
    /\ UNCHANGED <<kind, defs, out, parentKind, clip_depth, mask_id, num_filters,
                   wanted_frame, tags, pos, current_frame, frame_tags,
                   display_tags, walk, sprites, docs>>
    /\ UNCHANGED gvars
    /\ UNCHANGED <<svars, lvars, dvars, kvars, pvars>>

\* One iteration of the loop of export_define_edit_text, lines 632-647, with
\* FontExporter.export_glyph_by_code (lines 35-43) and
\* GlyphExporter.export_glyph_by_code (lines 70-80)
EditTextChar ==
    /\ pc = "edit_text"
    /\ Val(text).i <= Len(Val(text).chars)
    /\ LET t == Val(text)
           f == t.fontId
           code == t.chars[t.i]
           has == f \in DOMAIN glyph_exporters
           defs1 == IF has THEN defs ELSE Append(defs, DefFont(next_font_id))
           ge == IF has THEN glyph_exporters[f]
                 ELSE GlyphExporter(next_font_id, <<>>, Len(defs) + 1,
                                    fonts[f].fontName)
           hit == code \in DOMAIN ge.code_table
           key == <<ge.font, code>>
           found == GlyphFound(key)
           added == ~hit /\ found
           glyph_index == ge.next_glyph_index
           index == IF hit THEN Some(ge.code_table[code])
                    ELSE IF found THEN Some(glyph_index) ELSE None
           ge1 == IF added
                  THEN [ge EXCEPT
                          !.code_table = RecordGlyph(@, code, glyph_index),
                          !.next_glyph_index = @ + 1]
                  ELSE ge
           use == [href |-> <<f, index>>, code |-> code]
       IN  /\ next_font_id' = IF has THEN next_font_id ELSE next_font_id + 1
           /\ glyph_exporters' =
                 [g \in DOMAIN glyph_exporters \cup {f} |->
                     IF g = f THEN ge1 ELSE glyph_exporters[g]]
           /\ glyphs' = IF added THEN glyphs \cup {key} ELSE glyphs
           /\ defs' = IF added
                      THEN AddGlyphElement(defs1, ge, glyph_index,
                                           <<"file", key[1], key[2]>>,
                                           FileGlyphData)
                      ELSE defs1
           /\ calls' = Append(calls,
                 [op |-> "export_glyph_by_code", font |-> f, code |-> code,
                  result |-> index, queried |-> ~hit, added |-> added])
           /\ text' = Some([t EXCEPT
                 !.i = @ + 1,
                 !.uses = IF SkipsChar(index) THEN @ ELSE Append(@, use)])
    /\ UNCHANGED <<fonts, store>>
    /\ UNCHANGED <<kind, pc, out, parentKind, clip_depth, mask_id, num_filters,
                   wanted_frame, tags, pos, current_frame, frame_tags,
                   display_tags, walk, sprites, docs>>
    /\ UNCHANGED gvars
    /\ UNCHANGED <<svars, lvars, dvars, kvars, pvars>>

\* export_define_edit_text, line 649: the text's group joins <defs>
EditTextEnd ==
    /\ pc = "edit_text"
    /\ Val(text).i > Len(Val(text).chars)
    /\ defs' = Append(defs, [type |-> "edit_text", id |-> Val(text).characterId,
                             fontId |-> Val(text).fontId,
                             uses |-> Val(text).uses])
    /\ text' = None
    /\ pc' = "define"
    /\ UNCHANGED <<fonts, store, glyphs, glyph_exporters, next_font_id, calls>>
    /\ UNCHANGED <<kind, out, parentKind, clip_depth, mask_id, num_filters,
                   wanted_frame, tags, pos, current_frame, frame_tags,
                   display_tags, walk, sprites, docs>>
    /\ UNCHANGED gvars
    /\ UNCHANGED <<svars, lvars, dvars, kvars, pvars>>

-----------------------------------------------------------------------------
(* TextLayout (swf/text_layout.py): a str is the sequence of its characters, *)
(* a character is a string of length one                                      *)

MaxLen == 3

EM_SQUARE_LENGTH == 1024

\* the characters of the texts laid out: the three delimiters, a control code
\* that is no delimiter, a break-before and a break-after character, a letter,
\* the multiplication sign (written "x") and an ideograph (written "W")
LayoutChars == {" ", "\r", "\n", "\t", "(", ")", "a", "x", "W"}

\* ord(c)
Ord(c) ==
    CASE c = "\t" -> 9
      [] c = "\n" -> 10
      [] c = "\r" -> 13
      [] c = " " -> 32
      [] c = "(" -> 40
      [] c = ")" -> 41
      [] c = "a" -> 97
      [] c = "x" -> 215
      [] c = "W" -> 19990

BREAK_BEFORE_CHARS == {"(", "[", "{"}
BREAK_AFTER_CHARS == {")", "]", "}", "+", "-", "="}
DELIMITER_CHARS == {"\r", "\n", " "}

\* s[a:b] for 0 <= a <= b <= len(s)
Slice(s, a, b) == SubSeq(s, a + 1, b)

\* a break-after test that leaves out the character that starts a token
ClosesAfterFirst(i, token_start) == i > token_start

\* line 104: the break-after character at i closes the token
ClosesToken(i, token_start) == i >= token_start

\* a next token that starts on the delimiter itself
AfterDelimiterSame(i) == i

\* line 98: the next token starts after the delimiter
AfterDelimiter(i) == i + 1

\* TextLayout._tokenize, the loop of lines 93-106 from index i on and the
\* lines 107-108 after it; `yielded` are the tokens yielded so far
RECURSIVE TokenizeFrom(_, _, _, _)
TokenizeFrom(s, i, token_start, yielded) ==
    IF i >= Len(s)
    THEN LET last == IF Len(s) = 0 THEN 0 ELSE Len(s) - 1
         IN IF last >= token_start
            THEN Append(yielded, Slice(s, token_start, Len(s)))
            ELSE yielded
    ELSE LET c == s[i + 1]
             before == IF i > token_start
                       THEN Append(yielded, Slice(s, token_start, i))
                       ELSE yielded
         IN IF c \in DELIMITER_CHARS
            THEN TokenizeFrom(s, i + 1, AfterDelimiter(i), Append(before, <<c>>))
            ELSE IF c \in BREAK_BEFORE_CHARS
            THEN TokenizeFrom(s, i + 1, IF i > token_start THEN i ELSE token_start,
                              before)
            ELSE IF c \in BREAK_AFTER_CHARS /\ ClosesToken(i, token_start)
            THEN TokenizeFrom(s, i + 1, i + 1,
                              Append(yielded, Slice(s, token_start, i + 1)))
            ELSE TokenizeFrom(s, i + 1, token_start, yielded)

Tokenize(s) == TokenizeFrom(s, 0, 0, <<>>)

MaxSize == 2

\* Lengths are whole numbers of 1/LengthUnit twip: a / EM_SQUARE_LENGTH and
\* the halving of line 121 are exact in these units.
LengthUnit == 2 * EM_SQUARE_LENGTH

\* line 41
DEFAULT_ADVANCE == (PIXELS_PER_TWIP * LengthUnit) \div 2

\* the fields of a TagDefineFont2 that TextLayout.__init__ reads
LayoutFont(hasLayout, codeTable, fontAdvanceTable) ==
    [hasLayout |-> hasLayout, codeTable |-> codeTable,
     fontAdvanceTable |-> fontAdvanceTable]

\* The fonts laid out with: one without layout; one with the letter, the
\* space (wider than the letter) and the multiplication sign; one with a
\* narrow letter and a wide ideograph; one whose letter has no width.
LayoutFonts ==
    {LayoutFont(FALSE, <<>>, <<>>),
     LayoutFont(TRUE, <<97, 32, 215>>,
                <<10 * EM_SQUARE_LENGTH, 15 * EM_SQUARE_LENGTH,
                  10 * EM_SQUARE_LENGTH>>),
     LayoutFont(TRUE, <<97, 19990>>,
                <<5 * EM_SQUARE_LENGTH + 512, 20 * EM_SQUARE_LENGTH>>),
     LayoutFont(TRUE, <<97, 19990>>, <<0, 10 * EM_SQUARE_LENGTH>>)}

MinOf(S) == CHOOSE v \in S : \A w \in S : v <= w
MaxOf(S) == CHOOSE v \in S : \A w \in S : w <= v

\* TextLayout.__init__, lines 43-52
TextLayoutOf(font_tag) ==
    IF font_tag.hasLayout
    THEN LET n == Len(font_tag.codeTable)
             codes == {font_tag.codeTable[k] : k \in 1..n}
             advances ==
                [c \in codes |->
                    LET k == MaxOf({j \in 1..n : font_tag.codeTable[j] = c})
                    IN (font_tag.fontAdvanceTable[k] * LengthUnit)
                          \div EM_SQUARE_LENGTH]
         IN [advances |-> advances,
             min_advance |-> MinOf({advances[c] : c \in codes}),
             max_advance |-> MaxOf({advances[c] : c \in codes})]
    ELSE [advances |-> <<>>,
          min_advance |-> DEFAULT_ADVANCE,
          max_advance |-> DEFAULT_ADVANCE]

\* TextLayout._measure_char, lines 146-157
MeasureChar(tl, c, font_size) ==
    IF c = " "
    THEN tl.min_advance * font_size
    ELSE LET code == Ord(c)
             default_advance == IF code < 256 THEN tl.min_advance
                                ELSE tl.max_advance
             advance == IF code \in DOMAIN tl.advances THEN tl.advances[code]
                        ELSE default_advance
         IN (IF code = 215 /\ advance = 10 * LengthUnit
             THEN 20 * LengthUnit ELSE advance) * font_size

\* TextLayout._measure_text, lines 140-144
RECURSIVE MeasureText(_, _, _)
MeasureText(tl, txt, font_size) ==
    IF txt = <<>> THEN 0
    ELSE MeasureChar(tl, Head(txt), font_size)
            + MeasureText(tl, Tail(txt), font_size)

\* u''.join(line_parts)
RECURSIVE Join(_)
Join(line_parts) ==
    IF line_parts = <<>> THEN <<>>
    ELSE Head(line_parts) \o Join(Tail(line_parts))

\* an overflow test that looks at the line without the token
OverflowsAlready(line_width, token_width, max_width) ==
    line_width > max_width

\* line 77: the token does not fit the line
Overflows(line_width, token_width, max_width) ==
    line_width + token_width > max_width

\* a line break that drops whatever token caused it
DropsAnyAtBreak(token) == TRUE

\* line 81: the space that caused the line break is dropped
DropsAtBreak(token) == token = <<" ">>

\* TextLayout._split_by_lines, the loop of lines 69-84 from token k on and
\* lines 85-87 after it.  A line is kept as its line_parts; lines.append joins
\* them (Join) when the line is laid out.
RECURSIVE SplitFrom(_, _, _, _, _, _, _)
SplitFrom(tl, tokens, k, font_size, max_width, line, lines) ==
    IF k > Len(tokens)
    THEN IF Len(line.parts) > 0 THEN Append(lines, line.parts) ELSE lines
    ELSE LET token == tokens[k]
             token_width == MeasureText(tl, token, font_size)
             empty == [parts |-> <<>>, width |-> 0]
             add(l) == [parts |-> Append(l.parts, token),
                        width |-> l.width + token_width]
         IN IF token \in {<<"\r">>, <<"\n">>} /\ Len(line.parts) > 0
            THEN SplitFrom(tl, tokens, k + 1, font_size, max_width, empty,
                           Append(lines, line.parts))
            ELSE IF Overflows(line.width, token_width, max_width)
                    /\ Len(line.parts) > 0
            THEN IF DropsAtBreak(token)
                 THEN SplitFrom(tl, tokens, k + 1, font_size, max_width, empty,
                                Append(lines, line.parts))
                 ELSE SplitFrom(tl, tokens, k + 1, font_size, max_width,
                                add(empty), Append(lines, line.parts))
            ELSE SplitFrom(tl, tokens, k + 1, font_size, max_width,
                           add(line), lines)

SplitByLines(tl, txt, font_size, max_width) ==
    SplitFrom(tl, Tokenize(txt), 1, font_size, max_width,
              [parts |-> <<>>, width |-> 0], <<>>)

ALIGN_LEFT == 0
ALIGN_RIGHT == 1
ALIGN_CENTER == 2

\* TextLayout._layout_line, the loop of lines 127-137 from character k on
RECURSIVE LayoutLineFrom(_, _, _, _, _, _)
LayoutLineFrom(tl, line, k, font_size, x, y) ==
    IF k > Len(line) THEN <<>>
    ELSE LET c == line[k]
         IN IF c = " "
            THEN LayoutLineFrom(tl, line, k + 1, font_size,
                                x + MeasureChar(tl, c, font_size), y)
            ELSE IF Ord(c) < 32
            THEN LayoutLineFrom(tl, line, k + 1, font_size, x, y)
            ELSE <<[c |-> c, code |-> Ord(c), x |-> x, y |-> y]>>
                 \o LayoutLineFrom(tl, line, k + 1, font_size,
                                   x + MeasureChar(tl, c, font_size), y)

\* TextLayout._layout_line, lines 110-138
LayoutLine(tl, line, font_size, align, x, y, bounds_width) ==
    LET line_width == MeasureText(tl, line, font_size)
        x_offset == IF align = ALIGN_CENTER
                    THEN (bounds_width - line_width) \div 2
                    ELSE IF align = ALIGN_RIGHT
                    THEN bounds_width - line_width
                    ELSE 0
    IN LayoutLineFrom(tl, line, 1, font_size,
                      x + 2 * PIXELS_PER_TWIP * LengthUnit + x_offset,
                      y + font_size * PIXELS_PER_TWIP * LengthUnit)

\* a line step that stays on the first line
CharHeightNone(font_size) == 0

\* line 56: char_height
CharHeight(font_size) == PIXELS_PER_TWIP * font_size * LengthUnit

\* TextLayout.layout_text, lines 54-63: the tokens, the lines (as their
\* parts), the characters of every line and the list returned
LayoutTextOf(tl, txt, font_size, align, bounds) ==
    LET bounds_width == (bounds.xmax - bounds.xmin) * LengthUnit
        lines == SplitByLines(tl, txt, font_size, bounds_width)
        line_chars ==
           [k \in 1..Len(lines) |->
               LayoutLine(tl, Join(lines[k]), font_size, align,
                          bounds.xmin * LengthUnit,
                          bounds.ymin * LengthUnit
                             + (k - 1) * CharHeight(font_size),
                          bounds_width)]
    IN [text |-> txt, font_size |-> font_size, align |-> align,
        bounds |-> bounds, bounds_width |-> bounds_width,
        tokens |-> Tokenize(txt), lines |-> lines,
        line_chars |-> line_chars, chars |-> Join(line_chars)]

\* the bounds of the edit texts laid out
LayoutBounds == {Rect(0, 0, 25, 100), Rect(10, 5, 70, 100)}

\* layout = TextLayout(font), export.py line 630
TextLayoutInit ==
    /\ \E font_tag \in LayoutFonts : text_layout' = Some(TextLayoutOf(font_tag))
    /\ laid_out' = None
    /\ UNCHANGED <<tvars, gvars, fvars, svars, dvars, kvars, pvars>>

\* layout.layout_text(text, font_size, align, tag.bounds), export.py line 631:
\* the one call made on the object
LayoutText ==
    /\ text_layout # None
    /\ laid_out = None
    /\ \E txt \in SeqsUpTo(LayoutChars, MaxLen), font_size \in 1..MaxSize,
          align \in {ALIGN_LEFT, ALIGN_RIGHT, ALIGN_CENTER},
          bounds \in LayoutBounds :
          laid_out' = Some(LayoutTextOf(Val(text_layout), txt, font_size,
                                        align, bounds))
    /\ UNCHANGED <<tvars, gvars, fvars, svars, text_layout, dvars, kvars, pvars>>

-----------------------------------------------------------------------------
(* Paths of a parsed document: swf/svg.py *)

MaxCommands == 2

\* the coordinates of path commands: one digit, two digits, and more than
\* the four significant digits that are written
PathCoords == {0, 15, 12346}

\* MoveTo / LineTo without a matrix: gx = x, gy = y (lines 594-604)
Command(letter, x, y) == [letter |-> letter, x |-> x, y |-> y]

PathCommandSet ==
    {Command(l, x, y) : l \in {"M", "L"}, x \in PathCoords, y \in PathCoords}

\* command lists that begin with a MoveTo, as Path.bounds asserts (line 371)
PathCommands ==
    {c \in SeqsUpTo(PathCommandSet, MaxCommands) :
        c # <<>> => c[1].letter = "M"}

\* svg.Rect, lines 654-659
SvgRect(x_min, y_min, x_max, y_max) ==
    [x_min |-> x_min, y_min |-> y_min, x_max |-> x_max, y_max |-> y_max]

\* a token of a path string: a command letter, or a number written as
\* mant * 10^exp in `chars` characters
LetterToken(letter) ==
    [kind |-> "command", letter |-> letter, mant |-> 0, exp |-> 0, chars |-> 1]

\* PathSerializer._format_coordinate, line 581: '{:.4g}' keeps four
\* significant digits and writes larger numbers with an exponent
FormatCoordinate(coordinate) ==
    IF coordinate < 10
    THEN [kind |-> "float", letter |-> "", mant |-> coordinate, exp |-> 0,
          chars |-> 1]
    ELSE IF coordinate < 10000
    THEN [kind |-> "float", letter |-> "", mant |-> coordinate, exp |-> 0,
          chars |-> 2]
    ELSE [kind |-> "float", letter |-> "", mant |-> (coordinate + 5) \div 10,
          exp |-> 1, chars |-> 9]

\* PathSerializer.serialize, lines 567-577: the parts joined by ' '
RECURSIVE SerializeFrom(_, _, _)
SerializeFrom(commands, k, last_command_letter) ==
    IF k > Len(commands) THEN <<>>
    ELSE LET command == commands[k]
             args == <<FormatCoordinate(command.x), FormatCoordinate(command.y)>>
         IN (IF last_command_letter # command.letter
             THEN <<LetterToken(command.letter)>> ELSE <<>>)
            \o args \o SerializeFrom(commands, k + 1, command.letter)

Serialize(commands) == SerializeFrom(commands, 1, "")

\* PathParser._tokenize_path, lines 543-562: [raised, tokens].  The '+' of
\* an exponent is an unexpected char (line 557); the last token is appended
\* only when it is longer than one character (line 560).
TokenizePath(d) ==
    IF \E k \in 1..Len(d) : d[k].exp # 0
    THEN [raised |-> TRUE, tokens |-> <<>>]
    ELSE IF d # <<>> /\ d[Len(d)].kind = "float" /\ d[Len(d)].chars = 1
    THEN [raised |-> FALSE, tokens |-> SubSeq(d, 1, Len(d) - 1)]
    ELSE [raised |-> FALSE, tokens |-> d]

\* PathParser.parse, lines 474-506, from token i on: `letter` is the command
\* whose arguments are read ("" when a command is expected)
RECURSIVE ParseFrom(_, _, _, _)
ParseFrom(tokens, i, letter, commands) ==
    IF i > Len(tokens) THEN [raised |-> FALSE, commands |-> commands]
    ELSE IF tokens[i].kind = "command"
    THEN IF tokens[i].letter \in {"M", "L"}
         THEN ParseFrom(tokens, i + 1, tokens[i].letter, commands)
         ELSE [raised |-> TRUE, commands |-> <<>>]
    ELSE IF letter = "" \/ i + 1 > Len(tokens) \/ tokens[i + 1].kind # "float"
    THEN [raised |-> TRUE, commands |-> <<>>]
    ELSE ParseFrom(tokens, i + 2, letter,
                   Append(commands,
                          Command(letter, tokens[i].mant, tokens[i + 1].mant)))

\* PathParser(d, None).parse()
Parse(d) ==
    LET t == TokenizePath(d)
    IN IF t.raised THEN [raised |-> TRUE, commands |-> <<>>]
       ELSE ParseFrom(t.tokens, 1, "", <<>>)

\* Path.__init__, lines 355-360 and 142-145, of a path element without
\* data-bounds
PathOf(d) == [d |-> d, commands |-> None, bounds |-> None]

\* Path.get_commands, lines 413-417: the object afterwards and the value
\* returned (None when the parser raised)
GetCommandsOf(p) ==
    IF p.commands # None THEN [obj |-> p, ret |-> p.commands]
    ELSE LET r == Parse(p.d)
         IN IF r.raised THEN [obj |-> p, ret |-> None]
            ELSE [obj |-> [p EXCEPT !.commands = Some(r.commands)],
                  ret |-> Some(r.commands)]

\* lines 367-382: the bounding rectangle of a list of commands
CommandsBounds(commands) ==
    IF Len(commands) = 0 THEN SvgRect(0, 0, 0, 0)
    ELSE LET xs == {commands[k].x : k \in 1..Len(commands)}
             ys == {commands[k].y : k \in 1..Len(commands)}
         IN SvgRect(MinOf(xs), MinOf(ys), MaxOf(xs), MaxOf(ys))

\* Path.bounds, lines 362-383: the object afterwards and the value returned
BoundsOf(p) ==
    IF p.bounds # None THEN [obj |-> p, ret |-> p.bounds]
    ELSE LET g == GetCommandsOf(p)
         IN IF g.ret = None THEN g
            ELSE LET b == CommandsBounds(Val(g.ret))
                 IN [obj |-> [g.obj EXCEPT !.bounds = Some(b)],
                     ret |-> Some(b)]

\* Path.set_commands, lines 419-422
SetCommandsOf(p, commands) ==
    [p EXCEPT !.d = Serialize(commands), !.commands = Some(commands)]

PathCall(name, arg, ret) == [name |-> name, arg |-> arg, ret |-> ret]

\* ShapeGroup.get_paths, line 214: the Path of a path element of the document
GetPaths ==
    /\ path_obj = None
    /\ \E c \in PathCommands : path_obj' = Some(PathOf(Serialize(c)))
    /\ path_call' = None
    /\ UNCHANGED <<tvars, gvars, fvars, svars, lvars, dvars, kvars>>

\* Definitions.get, line 111: another Path object for the same element
PathAgain ==
    /\ path_obj # None
    /\ path_obj' = Some(PathOf(Val(path_obj).d))
    /\ path_call' = None
    /\ UNCHANGED <<tvars, gvars, fvars, svars, lvars, dvars, kvars>>

\* path.bounds, as in SvgCleaner._is_logo_path (clean_svg.py line 101)
Bounds ==
    /\ path_obj # None
    /\ LET r == BoundsOf(Val(path_obj))
       IN /\ path_obj' = Some(r.obj)
          /\ path_call' = Some(PathCall("bounds", <<>>, r.ret))
    /\ UNCHANGED <<tvars, gvars, fvars, svars, lvars, dvars, kvars>>

\* path.get_commands(), as in FrameRemover.remove_frames (clean_svg.py line 240)
GetCommands ==
    /\ path_obj # None
    /\ LET r == GetCommandsOf(Val(path_obj))
       IN /\ path_obj' = Some(r.obj)
          /\ path_call' = Some(PathCall("get_commands", <<>>, r.ret))
    /\ UNCHANGED <<tvars, gvars, fvars, svars, lvars, dvars, kvars>>

\* path.set_commands(commands), as in FrameRemover.remove_frames
\* (clean_svg.py line 245)
SetCommands ==
    /\ path_obj # None
    /\ \E commands \in PathCommands :
          /\ path_obj' = Some(SetCommandsOf(Val(path_obj), commands))
          /\ path_call' = Some(PathCall("set_commands", commands, <<>>))
    /\ UNCHANGED <<tvars, gvars, fvars, svars, lvars, dvars, kvars>>

-----------------------------------------------------------------------------
(* Specifications *)

NextSvg ==
    \/ Export
    \/ ExportDefineShape
    \/ ExportDefineSprite
    \/ ExportRoot
    \/ ExportDisplayListItem
    \/ EndDisplayList

NextFrame ==
    \/ Export
    \/ ExportDefineShape
    \/ ExportDefineSprite
    \/ ExportRoot
    \/ FrameScanRecord
    \/ FrameScanEnd
    \/ ExportDisplayListItem
    \/ EndDisplayList

\* SVGExporter exporting documents
SpecSvg == ExporterInit("svg") /\ [][NextSvg]_vars

\* FrameSVGExporter exporting frames of documents
SpecFrame == ExporterInit("frame") /\ [][NextFrame]_vars

NextGradient ==
    \/ Export
    \/ ExportGradient
    \/ ExportEmptyRoot
    \/ EndDisplayList

\* SVGExporter exporting documents of gradient-filled shapes
SpecGradient == ExporterInit("svg") /\ [][NextGradient]_vars

\* the top-level timeline of a document whose instances carry filter lists
ExportFilteredRoot == ExportRootOf(FilterStreams)

NextFilter ==
    \/ Export
    \/ ExportDefineShape
    \/ ExportFilteredRoot
    \/ ExportDisplayListItem
    \/ EndDisplayList

\* SVGExporter exporting documents whose instances carry filter lists
SpecFilter == ExporterInit("svg") /\ [][NextFilter]_vars

NextShape ==
    \/ Export
    \/ ExportDefineBits
    \/ BeginShape
    \/ MoveTo
    \/ LineTo
    \/ CurveTo
    \/ BeginFill
    \/ BeginGradientFill
    \/ BeginBitmapFill
    \/ LineStyle
    \/ LineGradientStyle
    \/ LineBitmapStyle
    \/ EndFills
    \/ EndShape
    \/ ExportEmptyRoot
    \/ EndDisplayList

\* SVGExporter exporting documents of shapes drawn path by path
SpecShape == ExporterInit("svg") /\ [][NextShape]_vars

NextLayout ==
    \/ TextLayoutInit
    \/ LayoutText

\* the timelines of a margin run: placements of shape 1
MarginStreams ==
    SeqsUpTo({PlaceObject(d, Some(1), FALSE, None) : d \in 1..MaxDepth}, 2)

MaxMargin == 1

NextMargin ==
    \/ Export
    \/ ExportDefineShape
    \/ ExportRootOf(MarginStreams)
    \/ ExportDisplayListItem
    \/ EndDisplayListOf(FrameSizes)

\* SVGExporter constructed with a margin, exporting documents
SpecMargin ==
    ExporterInitOf("svg", {NoGlyphFiles}, 0..MaxMargin) /\ [][NextMargin]_vars

NextStore ==
    \/ OpenFont
    \/ AddGlyph
    \/ AddGlyphAdvance
    \/ SaveAdvances

\* processes sharing one font directory
SpecStore == ExporterInit("svg") /\ [][NextStore]_vars

NextPath ==
    \/ GetPaths
    \/ PathAgain
    \/ Bounds
    \/ GetCommands
    \/ SetCommands

\* the cleaner reading and editing a path of a document
SpecPath == ExporterInit("svg") /\ [][NextPath]_vars

\* TextLayout objects laying out texts
SpecLayout == ExporterInit("svg") /\ [][NextLayout]_vars

\* a document with font tags
ExportWithFonts == ExportOf(FontDicts)

NextGlyph ==
    \/ ExportWithFonts
    \/ ExportDefineFont
    \/ ExportDefineEditText
    \/ EditTextChar
    \/ EditTextEnd
    \/ ExportEmptyRoot
    \/ EndDisplayList

\* SVGExporter, over a font storage, exporting documents of fonts and edit texts
SpecGlyph == ExporterInitWith("svg", Stores) /\ [][NextGlyph]_vars

-----------------------------------------------------------------------------
(* Display list order and masking *)

Emitted == 1..Len(out)

\* C1: the instances of a timeline walk are emitted into the output parent in
\* ascending depth order: of two emitted instances with depths d1 < d2 the
\* fragment of d1 comes first, whatever order the records had in the stream.
C1_AscendingDepth ==
    \A i, j \in Emitted :
        out[i].inst.depth < out[j].inst.depth => i < j

\* two instances were emitted whose records came in descending depth order
C1_Witness ==
    /\ pc = "walk"
    /\ \E i, j \in 1..Len(tags) :
          /\ i < j
          /\ tags[i].type = "PlaceObject" /\ tags[j].type = "PlaceObject"
          /\ tags[i].depth > tags[j].depth
          /\ \E a, b \in Emitted : out[a].inst = tags[j] /\ out[b].inst = tags[i]

\* the clip-depth instance most recently emitted before position j (0: none)
LastClip(j) ==
    LET clips == {i \in 1..(j - 1) : out[i].inst.hasClipDepth}
    IN  IF clips = {} THEN 0 ELSE CHOOSE i \in clips : \A k \in clips : k <= i

\* C2: after a clip-depth instance with ceiling C, every following instance
\* with depth <= C, up to the next clip-depth instance, carries a reference to
\* that mask; the first following instance with depth > C and every instance
\* after it, up to the next clip-depth instance, carries none.
C2_MaskedUpToCeiling ==
    \A j \in Emitted :
        LET m == LastClip(j) IN
        (m > 0 /\ ~out[j].inst.hasClipDepth) =>
            LET C == Val(out[m].inst.clipDepth)
                above == \E k \in (m + 1)..j : out[k].inst.depth > C
            IN  /\ out[j].inst.depth <= C => out[j].mask = out[m].id
                /\ above => out[j].mask = None

\* a mask, then an instance at the ceiling carrying the reference, then one
\* above the ceiling carrying none
C2_Witness ==
    \E m, a, b \in Emitted :
        /\ m < a /\ a < b
        /\ out[m].inst.hasClipDepth
        /\ LastClip(b) = m
        /\ out[a].inst.depth = Val(out[m].inst.clipDepth)
        /\ out[a].mask = out[m].id
        /\ out[b].inst.depth > Val(out[m].inst.clipDepth)
        /\ out[b].mask = None

\* C5: an instance whose character id is absent from the definition pool is
\* skipped: the output holds no reference to a definition that does not exist.
C5_NoDanglingReference ==
    \A i \in Emitted :
        out[i].href # None /\ Val(out[i].href) \in DefinedIds

\* C9: a clip-depth instance is rendered into a mask definition under <defs>
\* and is not appended to the visible tree (the root or the sprite's group).
C9_MaskNotInVisibleTree ==
    \A i \in Emitted : out[i].inst.hasClipDepth =>
        /\ out[i].tag # "mask"
        /\ \E k \in 1..Len(defs) : defs[k].type = "mask" /\ defs[k].id = out[i].id

\* C10: the mask state is reset at the start of every timeline walk: an
\* instance that no clip-depth instance precedes in its own walk carries no
\* mask reference, at every depth including 0.
C10_NoMaskFromEarlierTimeline ==
    \A j \in Emitted :
        (~out[j].inst.hasClipDepth /\ LastClip(j) = 0) => out[j].mask = None

-----------------------------------------------------------------------------
(* Frame composition *)

\* the records scanned so far, or scanned in all once the scan has ended
Scanned == SubSeq(tags, 1, pos - 1)

\* index in `ts` of the most recent placement at depth d that no removal at d
\* follows; 0 when there is none
LastPlacement(ts, d) ==
    LET at == {i \in 1..Len(ts) :
                  ts[i].type \in {"PlaceObject", "RemoveObject"} /\ ts[i].depth = d}
    IN  IF at = {} THEN 0
        ELSE LET m == CHOOSE i \in at : \A k \in at : k <= i
             IN  IF ts[m].type = "PlaceObject" THEN m ELSE 0

\* is `stored` the instance of the placement record `rec` (a move inherits the
\* character id and the name it does not carry)
InstanceOf(stored, rec) ==
    /\ [stored EXCEPT !.characterId = None, !.instanceName = None]
         = [rec EXCEPT !.characterId = None, !.instanceName = None]
    /\ rec.hasCharacter => stored.characterId = rec.characterId
    /\ rec.hasName => stored.instanceName = rec.instanceName

\* `insts` holds, per depth, exactly the instance of the last placement of `ts`
HoldsLastPlacements(insts, ts) ==
    /\ \A i, j \in 1..Len(insts) : insts[i].depth = insts[j].depth => i = j
    /\ \A d \in Depths :
          LET m == LastPlacement(ts, d) IN
          IF m = 0 THEN \A i \in 1..Len(insts) : insts[i].depth # d
          ELSE \E i \in 1..Len(insts) :
                  insts[i].depth = d /\ InstanceOf(insts[i], ts[m])

\* C3: while a timeline's records are scanned for a frame the depth map holds
\* at most one instance per depth after every record, each under its own
\* depth, and per depth exactly the instance of the most recent placement that
\* no removal followed; so does the resulting display list.
C3_OneInstancePerDepth ==
    /\ (kind = "frame" /\ pc = "scan") =>
          /\ \A i \in 1..Len(frame_tags) : frame_tags[i][2].depth = frame_tags[i][1]
          /\ HoldsLastPlacements(DictValues(frame_tags), Scanned)
    /\ (kind = "frame" /\ pc = "walk") =>
          HoldsLastPlacements(display_tags, Scanned)

\* a placement replaced an instance at its depth and the display list holds
\* the later one only
C3_Witness ==
    /\ kind = "frame" /\ pc = "walk"
    /\ Len(display_tags) = 1
    /\ \E i, j \in 1..(pos - 1) :
          /\ i < j
          /\ tags[i].type = "PlaceObject" /\ tags[j].type = "PlaceObject"
          /\ tags[i].depth = tags[j].depth
          /\ tags[i] # tags[j]
          /\ ~tags[j].hasMove
          /\ display_tags[1] = tags[j]

ShowFramesBefore(ts, i) ==
    Cardinality({j \in 1..(i - 1) : ts[j].type = "ShowFrame"})

\* the ShowFrame of `ts` that k ShowFrames precede, or the end of `ts`
StopIndex(ts, k) ==
    LET at == {i \in 1..Len(ts) :
                  ts[i].type = "ShowFrame" /\ ShowFramesBefore(ts, i) = k}
    IN  IF at = {} THEN Len(ts) + 1 ELSE CHOOSE i \in at : TRUE

\* C4: composing frame k, accumulation stops at the ShowFrame that k
\* ShowFrames precede (the count of markers passed equals k): the display list
\* is what the records before that point make it, whatever follows it.
C4_StopsAtWantedFrame ==
    (kind = "frame" /\ pc = "walk") =>
        LET stop == StopIndex(tags, wanted_frame) IN
        /\ pos = stop
        /\ stop <= Len(tags) => current_frame = wanted_frame
        /\ HoldsLastPlacements(display_tags, SubSeq(tags, 1, stop - 1))

\* a frame was composed of one instance from a stream that goes on after the
\* stop and ends with a placement at another depth, which was left out
C4_Witness ==
    /\ kind = "frame" /\ pc = "walk"
    /\ pos < Len(tags)
    /\ tags[Len(tags)].type = "PlaceObject"
    /\ \A i \in 1..Len(display_tags) : display_tags[i].depth # tags[Len(tags)].depth
    /\ Len(display_tags) = 1

-----------------------------------------------------------------------------
(* Gradient deduplication *)

GradientDefsOf(g) ==
    {k \in 1..Len(defs) : /\ defs[k].type = "gradient"
                          /\ defs[k].elem = GradientElement(g)}

DiffersInOneStopColor(g, h) ==
    /\ [g EXCEPT !.colors = <<>>] = [h EXCEPT !.colors = <<>>]
    /\ Len(g.colors) = Len(h.colors)
    /\ Cardinality({i \in 1..Len(g.colors) : g.colors[i] # h.colors[i]}) = 1

\* C6: within the document being exported, two structurally identical
\* gradient fills have exactly one gradient definition in defs and both
\* reference its id; two gradients that differ in a single stop colour have
\* two definitions with distinct ids.
C6_OneSharedDefinition ==
    \A i, j \in 1..Len(fills) :
       i < j =>
          /\ fills[i].gradient = fills[j].gradient =>
                /\ fills[i].ref = fills[j].ref
                /\ Cardinality(GradientDefsOf(fills[i].gradient)) = 1
                /\ \A k \in GradientDefsOf(fills[i].gradient) :
                      defs[k].id = fills[i].ref
          /\ DiffersInOneStopColor(fills[i].gradient, fills[j].gradient) =>
                /\ fills[i].ref # fills[j].ref
                /\ \E k \in GradientDefsOf(fills[i].gradient) :
                      defs[k].id = fills[i].ref
                /\ \E k \in GradientDefsOf(fills[j].gradient) :
                      defs[k].id = fills[j].ref

\* C24: in every document exported by one exporter, whatever it exported
\* before, each gradient id referenced by a fill or stroke of the document
\* has a gradient definition with that id in the defs of that document.
C24_GradientRefsDefined ==
    \A i \in 1..Len(fills) :
        \E k \in 1..Len(defs) :
            defs[k].type = "gradient" /\ defs[k].id = fills[i].ref

-----------------------------------------------------------------------------
(* Glyph resolution *)

IsResolve(i) == i \in 1..Len(calls) /\ calls[i].op = "export_glyph_by_code"

\* C7: when the same (font, code) is resolved twice in one document and the
\* first call returns a glyph index, the second call returns the same index
\* and is a cache hit: it makes no query of the glyph store and adds no
\* glyph element.
C7_ResolvedOnce ==
    \A i, j \in 1..Len(calls) :
       ( /\ i < j
         /\ IsResolve(i)
         /\ IsResolve(j)
         /\ calls[i].font = calls[j].font
         /\ calls[i].code = calls[j].code
         /\ calls[i].result # None )
       => /\ calls[j].result = calls[i].result
          /\ ~calls[j].queried
          /\ ~calls[j].added

\* the code tables of the document's glyph exporters
GlyphCache ==
    {<<p[1], p[2], glyph_exporters[p[1]].code_table[p[2]]>> :
        p \in {q \in (DOMAIN glyph_exporters) \X Codes :
                  q[2] \in DOMAIN glyph_exporters[q[1]].code_table}}

\* the glyph elements of the document, font group by font group
GlyphFragments ==
    {<<defs[k].id, defs[k].glyphs>> :
        k \in {j \in 1..Len(defs) : /\ defs[j].type = "font"
                                    /\ defs[j].glyphs # <<>>}}

\* the code is in neither the font tag's code table nor the glyph store
AbsentGlyph(f, code) ==
    /\ \A i \in DOMAIN fonts[f].codeTable : fonts[f].codeTable[i] # code
    /\ <<fonts[f].fontName, code>> \notin DOMAIN store

AtAbsentGlyph ==
    /\ pc = "edit_text"
    /\ Val(text).i <= Len(Val(text).chars)
    /\ AbsentGlyph(Val(text).fontId, Val(text).chars[Val(text).i])

\* C8: when the edit-text export comes to a character whose glyph is in
\* neither the font's code table nor the glyph store, the glyph resolves to
\* None, the glyph cache and the document's glyph elements stay as they are,
\* no use element is emitted for the character and the export goes on to the
\* next character.
C8_AbsentGlyphSkipped ==
    [][AtAbsentGlyph =>
          /\ calls'[Len(calls')].result = None
          /\ GlyphCache' = GlyphCache
          /\ GlyphFragments' = GlyphFragments
          /\ Val(text').uses = Val(text).uses
          /\ Val(text').i = Val(text).i + 1
          /\ pc' = "edit_text"]_vars

\* an edit text whose first character has no glyph and was skipped, and
\* whose second character was emitted
C8_Witness ==
    /\ pc = "edit_text"
    /\ Val(text).i = 3
    /\ AbsentGlyph(Val(text).fontId, Val(text).chars[1])
    /\ Len(Val(text).uses) = 1
    /\ Val(text).uses[1].code = Val(text).chars[2]

-----------------------------------------------------------------------------
(* Glyph identifiers within one export run *)

\* the resolve-by-code calls of this document that returned a glyph index
Resolved == {i \in 1..Len(calls) : IsResolve(i) /\ calls[i].result # None}

\* the resolve-by-code calls of this document that minted a glyph index
Minted == {i \in Resolved : calls[i].added}

\* C11: within one export run every (font, code) mapping handed out by a
\* resolve-by-code call is still recorded with the same glyph index for that
\* font, and a glyph index minted on demand for a font differs from every
\* index minted earlier for another code of that font.
C11_GlyphIdsKept ==
    /\ \A i \in Resolved :
          /\ calls[i].font \in DOMAIN glyph_exporters
          /\ calls[i].code \in DOMAIN glyph_exporters[calls[i].font].code_table
          /\ glyph_exporters[calls[i].font].code_table[calls[i].code]
                = Val(calls[i].result)
    /\ \A i, j \in Minted :
          ( /\ i < j
            /\ calls[i].font = calls[j].font
            /\ calls[i].code # calls[j].code )
          => calls[i].result # calls[j].result

-----------------------------------------------------------------------------
(* Filter lists *)

\* C12: the export of a display list whose instances carry filter lists, of
\* known or of unknown kinds, never fails: every instance of the list walked
\* so far has been emitted.
C12_UnknownFilterDropped ==
    /\ pc # "aborted"
    /\ pc = "walk" => Len(out) = walk - 1

-----------------------------------------------------------------------------
(* Stroke widths and path data of shapes *)

SeqElems(q) == {q[i] : i \in 1..Len(q)}

\* the path elements of the shapes in <defs> and of the shape being drawn
EmittedPaths ==
    UNION {SeqElems(defs[k].paths) : k \in ShapeDefs} \cup SeqElems(shape_g)

\* the path elements that a line-style operation has styled
StyledPaths ==
    EmittedPaths \cup (IF path = None THEN {} ELSE {Val(path)})

\* C13: every stroke-width set on a path is at least the minimum 0.5; a
\* line-style operation (solid, gradient or bitmap) called with a thickness
\* below the minimum, 0 included, sets the minimum, and called with a
\* thickness at or above the minimum sets that thickness.
C13_StrokeWidthClamped ==
    \A p \in StyledPaths :
       /\ p.strokeWidth # None => Val(p.strokeWidth) >= MinimumStrokeWidth
       /\ (p.thickness # None /\ Val(p.thickness) # None) =>
             LET t == Val(Val(p.thickness)) IN
             /\ p.strokeWidth # None
             /\ t < MinimumStrokeWidth => Val(p.strokeWidth) = MinimumStrokeWidth
             /\ t >= MinimumStrokeWidth => Val(p.strokeWidth) = t

\* a shape in <defs> has a path stroked with a bitmap pattern whose line
\* style asked for thickness 0
C13_Witness ==
    \E k \in ShapeDefs : \E p \in SeqElems(defs[k].paths) :
       /\ p.stroke = <<"url", "pat", 1>>
       /\ p.thickness = Some(Some(0))
       /\ p.strokeWidth = Some(MinimumStrokeWidth)

\* the glyph elements of the fonts in <defs>
GlyphPaths ==
    UNION {SeqElems(defs[k].glyphs) :
              k \in {j \in 1..Len(defs) : defs[j].type = "font"}}

\* C14: no path element with empty path data is emitted: not for a style
\* run of a shape that received no drawing command, and not for a glyph of
\* an exported font.
C14_NoEmptyPath ==
    /\ \A k \in ShapeDefs : \A p \in SeqElems(defs[k].paths) :
          p.d # None /\ Val(p.d) # <<>>
    /\ \A e \in GlyphPaths : e.d # ""


-----------------------------------------------------------------------------
(* One shape placed once *)

\* the text of an integer: no point and no fraction digits
IntStr(n) ==
    [neg |-> n < 0, int |-> IF n < 0 THEN 0 - n ELSE n, point |-> FALSE,
     frac |-> <<>>]

\* the walk of the root timeline of a document that defines shape 1 and places
\* it once, at depth 1, has ended
OneShapePlacedOnce ==
    /\ pc = "walk" /\ parentKind = "root" /\ walk > Len(display_tags)
    /\ tags = <<PlaceObject(1, Some(1), FALSE, None), ShowFrame>>
    /\ ShapeDefs = {1}
    /\ defs[1].id = 1 /\ defs[1].shape_bounds = Square10

\* C15: a document with one shape definition (a 10x10 square) placed once at
\* depth 1 with the identity transform exports a root with exactly one
\* reference, which names exactly one fragment of <defs>, and that fragment
\* has data-type "shape" and the data-bounds "0 0 10 10".
C15_OneShapeOneReference ==
    OneShapePlacedOnce =>
        /\ Len(out) = 1
        /\ Cardinality({k \in 1..Len(defs) :
                           /\ defs[k].type \in {"shape", "sprite"}
                           /\ out[1].href = Some(defs[k].id)}) = 1
        /\ \A k \in 1..Len(defs) :
              out[1].href = Some(defs[k].id) =>
                 /\ defs[k].type = "shape"
                 /\ defs[k].bounds = <<IntStr(0), IntStr(0), IntStr(10), IntStr(10)>>

-----------------------------------------------------------------------------
(* Text layout *)

\* C16: in the tokens of a text every delimiter (space, CR, LF) is a token of
\* its own, a break-before character is the first character of its token and
\* a break-after character is the last character of its token, also when it
\* is the token's first character; "(a)" yields the single token "(a)".
C16_TokenClasses ==
    laid_out # None =>
        LET tokens == Val(laid_out).tokens
        IN /\ \A k \in 1..Len(tokens) : \A j \in 1..Len(tokens[k]) :
                 /\ tokens[k][j] \in DELIMITER_CHARS => Len(tokens[k]) = 1
                 /\ tokens[k][j] \in BREAK_BEFORE_CHARS => j = 1
                 /\ tokens[k][j] \in BREAK_AFTER_CHARS => j = Len(tokens[k])
           /\ Val(laid_out).text = <<"(", "a", ")">>
                 => tokens = << <<"(", "a", ")">> >>

\* ")a " is tokenized into the singleton ")", "a" and the delimiter
C16_Witness ==
    /\ laid_out # None
    /\ Val(laid_out).text = <<")", "a", " ">>
    /\ Val(laid_out).tokens = << <<")">>, <<"a">>, <<" ">> >>

\* the measured width of `txt` in the layout call of the state
LaidWidth(txt) ==
    MeasureText(Val(text_layout), txt, Val(laid_out).font_size)

NoLineBreak(txt) == \A k \in 1..Len(txt) : txt[k] \notin {"\r", "\n"}

NotSpace(token) == token # <<" ">>

\* C17: line packing is greedy.  Every line of two or more tokens has a
\* measured width <= the bounds width.  In a text without CR and LF a line is
\* closed only by a token that would overflow it: the space, which is then
\* dropped, or the token that starts the next line; nothing but such spaces
\* is dropped, at most one per closed line.
C17_GreedyLines ==
    laid_out # None =>
        LET r == Val(laid_out)
            kept == Join(r.lines)
        IN /\ \A k \in 1..Len(r.lines) :
                 Len(r.lines[k]) >= 2
                    => LaidWidth(Join(r.lines[k])) <= r.bounds_width
           /\ NoLineBreak(r.text) =>
                 /\ \A k \in 1..(Len(r.lines) - 1) :
                       \/ LaidWidth(Join(r.lines[k])) + LaidWidth(<<" ">>)
                             > r.bounds_width
                       \/ LaidWidth(Join(r.lines[k]))
                             + LaidWidth(r.lines[k + 1][1]) > r.bounds_width
                 /\ SelectSeq(kept, NotSpace) = SelectSeq(r.tokens, NotSpace)
                 /\ Len(kept) + Len(r.lines) >= Len(r.tokens)

\* "a a" in bounds that hold two characters: "a " is closed by the second "a"
C17_Witness ==
    /\ laid_out # None
    /\ Val(laid_out).text = <<"a", " ", "a">>
    /\ Val(laid_out).lines = << << <<"a">>, <<" ">> >>, << <<"a">> >> >>
    /\ LaidWidth(<<"a", " ", "a">>) > Val(laid_out).bounds_width

\* the advance the font metrics give a character: its explicit advance, or
\* the default of its class
MetricsAdvance(tl, c) ==
    IF Ord(c) \in DOMAIN tl.advances THEN tl.advances[Ord(c)]
    ELSE IF Ord(c) < 256 THEN tl.min_advance
    ELSE tl.max_advance

\* C18: the advance width of every character of a laid out text, the space
\* included, is its explicit advance from the font metrics when the font has
\* one for its code, and otherwise the font's minimum advance for a code
\* below 256 and the font's maximum advance for any other code.  (Stated for
\* the characters other than code 215, whose advance line 155 overrides.)
C18_AdvanceFromMetrics ==
    laid_out # None =>
        \A k \in 1..Len(Val(laid_out).text) :
            Ord(Val(laid_out).text[k]) # 215 =>
                LaidWidth(<<Val(laid_out).text[k]>>)
                   = MetricsAdvance(Val(text_layout), Val(laid_out).text[k])
                        * Val(laid_out).font_size

NotControl(c) == Ord(c) >= 32

\* line k of the layout call of the state, without its control codes
Visible(k) == SelectSeq(Join(Val(laid_out).lines[k]), NotControl)

\* the characters of line k, had it been laid out as `line` with alignment
\* `align`
LineLaidAs(k, line, align) ==
    LET r == Val(laid_out)
    IN LayoutLine(Val(text_layout), line, r.font_size, align,
                  r.bounds.xmin * LengthUnit,
                  r.bounds.ymin * LengthUnit + (k - 1) * CharHeight(r.font_size),
                  r.bounds_width)

\* no character of the result is a control code
NoControlCharLaidOut ==
    \A k \in 1..Len(Val(laid_out).chars) : Val(laid_out).chars[k].code >= 32

\* from the same start, the characters of a line are where they would be
\* without the control codes of the line
ControlCodesAdvanceNothing ==
    \A k \in 1..Len(Val(laid_out).lines) :
        LineLaidAs(k, Join(Val(laid_out).lines[k]), ALIGN_LEFT)
           = LineLaidAs(k, Visible(k), ALIGN_LEFT)

\* C19: control codes (code < 32) are laid out with zero contribution: they
\* produce no LayoutChar, they do not advance the x of the characters after
\* them, and they add nothing to the measured width of a line.
C19_ControlCodesCountNothing ==
    laid_out # None =>
        /\ NoControlCharLaidOut
        /\ ControlCodesAdvanceNothing
        /\ \A k \in 1..Len(Val(laid_out).lines) :
              LaidWidth(Join(Val(laid_out).lines[k])) = LaidWidth(Visible(k))

\* the layout call of the state is left-aligned and every character of its
\* text has a non-zero advance width
LeftAlignedNonZero ==
    /\ laid_out # None
    /\ Val(laid_out).align = ALIGN_LEFT
    /\ \A k \in 1..Len(Val(laid_out).text) :
          LaidWidth(<<Val(laid_out).text[k]>>) # 0

\* C20: in a left-aligned layout of a text whose characters all have non-zero
\* advance, the LayoutChars of one line have the same y and strictly
\* increasing x in text order, and from one line to the next y grows by
\* font_size in output units (PIXELS_PER_TWIP * font_size).
C20_LinesOfIncreasingX ==
    LeftAlignedNonZero =>
        LET r == Val(laid_out)
            lc == r.line_chars
        IN /\ \A k \in 1..Len(lc) : \A i, j \in 1..Len(lc[k]) :
                 i < j => lc[k][i].y = lc[k][j].y /\ lc[k][i].x < lc[k][j].x
           /\ \A j, k \in 1..Len(lc) :
                 j < k /\ lc[j] # <<>> /\ lc[k] # <<>>
                    => lc[k][1].y - lc[j][1].y
                          = (k - j) * r.font_size * PIXELS_PER_TWIP * LengthUnit
           /\ r.chars = Join(lc)

\* "a(a" in bounds that hold two characters is laid out on two lines, "a" and
\* "(a"
C20_Witness ==
    /\ LeftAlignedNonZero
    /\ Val(laid_out).text = <<"a", "(", "a">>
    /\ Len(Val(laid_out).line_chars) = 2
    /\ Len(Val(laid_out).line_chars[2]) = 2
    /\ Val(laid_out).line_chars[2][1].x < Val(laid_out).line_chars[2][2].x
    /\ Val(laid_out).line_chars[1][1].y < Val(laid_out).line_chars[2][1].y

-----------------------------------------------------------------------------
(* Effect graphs *)

\* the primitives of the <filter> that the emitted instance e references
EffectGraph(e) ==
    LET k == CHOOSE j \in 1..Len(defs) :
                defs[j].type = "filter" /\ defs[j].id = Val(e.filter)
    IN defs[k].prims

IsCxNode(prim) == prim \in {"feColorMatrix:cxform", "feComposite:color-xform"}

\* the first primitive of the fragment of a drop shadow or of a colour matrix
StartsFragment(prim) ==
    prim \in {"feGaussianBlur", "feColorMatrix:color-matrix"}

FragmentKind(prim) ==
    IF prim = "feGaussianBlur" THEN "DropShadow" ELSE "ColorMatrix"

IsTranslated(f) == f \in {"DropShadow", "ColorMatrix"}

-----------------------------------------------------------------------------
(* The document element *)

\* a rectangle grown by m pixels on every side
Grown(rect, m) ==
    Rect(rect.xmin - m * PIXELS_PER_TWIP, rect.ymin - m * PIXELS_PER_TWIP,
         rect.xmax + m * PIXELS_PER_TWIP, rect.ymax + m * PIXELS_PER_TWIP)

\* C22: the export of a document completes with any margin m >= 0, and the
\* document element of a completed export carries width, height and a viewBox
\* that spells the frame bounds grown by m on every side (the frame bounds
\* themselves when m = 0).
C22_ViewBoxWithMargin ==
    /\ pc # "aborted"
    /\ pc = "done" =>
          /\ svg # None
          /\ Val(svg).viewBox
                = Some(SerializeBounds(Grown(Val(svg).frame_size, margin)))
          /\ Val(svg).width
                = RoundPixels(Val(svg).frame_size.xmax - Val(svg).frame_size.xmin)
          /\ Val(svg).height
                = RoundPixels(Val(svg).frame_size.ymax - Val(svg).frame_size.ymin)

-----------------------------------------------------------------------------
(* The font directory *)

\* the advance that a reader of the directory `d` finds for a code
StoredAdvance(d, code) ==
    IF d.advances = None THEN None
    ELSE DictGet(JsonLoads(Val(d.advances)), StrKey(code))

\* a step keeps every glyph file with its content
GlyphFilesKept ==
    \A code \in DOMAIN disk.glyphs :
        code \in DOMAIN disk'.glyphs /\ disk'.glyphs[code] = disk.glyphs[code]

\* a step keeps every stored advance with its value
StoredAdvancesKept ==
    \A code \in StoreCodes :
        StoredAdvance(disk, code) # None
           => StoredAdvance(disk', code) = StoredAdvance(disk, code)

\* C23: the font directory is append-only under concurrent use: whatever the
\* processes sharing it call, in any interleaving, a glyph file or a stored
\* advance that is in the directory stays there with the same value (no lost
\* update, no overwrite of an existing entry).
C23_AppendOnlyStore == [][GlyphFilesKept /\ StoredAdvancesKept]_vars

\* the advances of the Font object h are what advances.json holds: h has
\* saved them, or has just read them
Flushed(h) ==
    disk.advances # None /\ Val(disk.advances) = JsonDumps(h.glyph_advances)

\* C29: persisted advances round-trip.  When a Font object has added the
\* advance w for a code and saved its advances, a Font object freshly opened
\* on the directory returns w for that code; and no Font object ever holds a
\* second entry for a code it has read from the directory.
C29_AdvancesRoundTrip ==
    \A p \in Procs : handles[p] # None =>
        \A code \in StoreCodes :
            /\ GetGlyphAdvance(Val(handles[p]), code) # None
               /\ Flushed(Val(handles[p]))
                  => GetGlyphAdvance(FontOpened, code)
                        = GetGlyphAdvance(Val(handles[p]), code)
            /\ ~ /\ DictHas(Val(handles[p]).glyph_advances, IntKey(code))
                 /\ DictHas(Val(handles[p]).glyph_advances, StrKey(code))

-----------------------------------------------------------------------------
(* Glyph references *)

\* the glyph elements of <defs> with the id font_<f>_<i>
GlyphsNamed(f, i) ==
    {e \in GlyphPaths : e.id = <<f, i>>}

\* the element e is the outline of character `code` of font tag f: a glyph
\* shape of the tag at the code's place in its code table, or the glyph file
\* of the code in the font's directory
OutlineOf(e, f, code) ==
    \/ e.src = <<"file", fonts[f].fontName, code>>
    \/ /\ e.src[1] = "shape" /\ e.src[2] = f
       /\ e.src[3] + 1 \in DOMAIN fonts[f].codeTable
       /\ fonts[f].codeTable[e.src[3] + 1] = code

\* C25: every glyph reference font_<f>_<i> of an edit text names a glyph
\* element with exactly that id in the document's defs, and that element is
\* the outline resolved for the character code of the reference, whatever the
\* order of the font and edit text definitions.
C25_GlyphRefsResolve ==
    \A k \in EditTexts : \A n \in 1..Len(defs[k].uses) :
        LET u == defs[k].uses[n]
        IN /\ GlyphsNamed(u.href[1], Val(u.href[2])) # {}
           /\ \A e \in GlyphsNamed(u.href[1], Val(u.href[2])) :
                 OutlineOf(e, u.href[1], u.code)

-----------------------------------------------------------------------------
(* Characters and tokens of a laid out text *)

\* the characters of the list returned by layout_text, in its order
LaidOutChars ==
    [k \in 1..Len(Val(laid_out).chars) |-> Val(laid_out).chars[k].c]

IsVisibleChar(c) == c # " " /\ Ord(c) >= 32

\* C26: the characters of the list returned by layout_text are the input text
\* with the spaces and the control codes (< 32) removed, in the original
\* order, for every text, font size, alignment and bounds.
C26_VisibleCharsKept ==
    laid_out # None =>
        LaidOutChars = SelectSeq(Val(laid_out).text, IsVisibleChar)

\* a text of two letters around a space that is broken into two lines at a
\* letter keeps both letters
C26_Witness ==
    /\ laid_out # None
    /\ Len(Val(laid_out).lines) = 2
    /\ Val(laid_out).text = <<"W", " ", "a">>
    /\ Val(laid_out).lines[2][1] = <<"a">>
    /\ LaidOutChars = <<"W", "a">>

\* C27: the tokens of a text, concatenated in order, are the text, and no
\* token of a non-empty text is empty.
C27_TokensLossless ==
    laid_out # None =>
        LET tokens == Val(laid_out).tokens
        IN /\ Join(tokens) = Val(laid_out).text
           /\ Val(laid_out).text # <<>>
                 => \A k \in 1..Len(tokens) : tokens[k] # <<>>

\* "a (" has a word, a delimiter and a break-before character
C27_Witness ==
    /\ laid_out # None
    /\ Val(laid_out).text = <<"a", " ", "(">>
    /\ Val(laid_out).tokens = << <<"a">>, <<" ">>, <<"(">> >>

-----------------------------------------------------------------------------
(* Moves and removals in the frame scan *)

\* the record that the frame scan processes next
ScansRecord(tag) ==
    /\ kind = "frame" /\ pc = "scan"
    /\ pos <= Len(tags)
    /\ tags[pos] = tag

\* the entries of the depth map at depths other than d
OtherDepths(ft, d) == SelectSeq(ft, LAMBDA e : e[1] # d)

\* a move record replaces the instance at its depth and inherits the
\* character id and the name it does not carry
MoveReplaces ==
    \A tag \in {tags[k] : k \in 1..Len(tags)} :
        (/\ ScansRecord(tag)
         /\ tag.type = "PlaceObject" /\ tag.hasMove
         /\ HasKey(frame_tags, tag.depth)) =>
            LET orig == Lookup(frame_tags, tag.depth)
            IN /\ pc' = "scan"
               /\ HasKey(frame_tags', tag.depth)
               /\ Lookup(frame_tags', tag.depth).characterId
                     = IF tag.hasCharacter THEN tag.characterId
                       ELSE orig.characterId
               /\ Lookup(frame_tags', tag.depth).instanceName
                     = IF tag.hasName THEN tag.instanceName
                       ELSE orig.instanceName
               /\ OtherDepths(frame_tags', tag.depth)
                     = OtherDepths(frame_tags, tag.depth)

\* a move or removal record for a depth that holds no instance lets the scan
\* go on and leaves the other depths as they are
EmptyDepthTolerated ==
    \A tag \in {tags[k] : k \in 1..Len(tags)} :
        (/\ ScansRecord(tag)
         /\ tag.type \in {"PlaceObject", "RemoveObject"}
         /\ tag.type = "PlaceObject" => tag.hasMove
         /\ ~HasKey(frame_tags, tag.depth)) =>
            /\ pc' = "scan"
            /\ OtherDepths(frame_tags', tag.depth)
                  = OtherDepths(frame_tags, tag.depth)

\* C28: a placement record with the move flag replaces the instance at its
\* depth and inherits the character id (or name) it does not carry from the
\* instance previously there; a move or removal record for a depth that holds
\* no instance does not abort the composition of the frame and leaves the
\* other depths unchanged.
C28_MovesAndRemovals == [][MoveReplaces /\ EmptyDepthTolerated]_vars

-----------------------------------------------------------------------------
(* Memoized fields of a Path *)

\* C30: after set_commands(c) on a Path, whatever bounds and get_commands
\* accesses came before, get_commands returns c and bounds is the bounding
\* rectangle computed from c.
C30_PathFieldsCoherent ==
    (path_call # None /\ Val(path_call).name = "set_commands") =>
        LET c == Val(path_call).arg
        IN /\ GetCommandsOf(Val(path_obj)).ret = Some(c)
           /\ BoundsOf(Val(path_obj)).ret = Some(CommandsBounds(c))

\* after set_commands(c), get_commands returns c
SetCommandsIsRead ==
    (path_call # None /\ Val(path_call).name = "set_commands") =>
        GetCommandsOf(Val(path_obj)).ret = Some(Val(path_call).arg)

=============================================================================
